---- MODULE Spec2Model ----
(***************************************************************************)
(* float-dock (float_launcher): the pinned collection, the two-column      *)
(* layout reconciler, the press-and-hold reorder gestures, the drop        *)
(* animation, and the frame loop (MyApp::update) that drives them.         *)
(*                                                                         *)
(* Conventions                                                             *)
(*   Option<T>   None is <<>>, Some(x) is <<x>>.                           *)
(*   String/Path a sequence of character codes (ASCII).                    *)
(*   Vec index   0-based as in the source; At(v, i) reads v[i].            *)
(*   Instant     a timer is kept as the milliseconds elapsed since it was  *)
(*               started (start.elapsed()), advanced by every frame.       *)
(***************************************************************************)
EXTENDS Integers, Sequences, FiniteSets, TLC

VARIABLES
    pinned_apps,       \* MyApp.pinned_apps: Vec<PinnedApp>
    config,            \* MyApp.config: pinned_apps, two_column_mode, two_column_layout
    is_visible,        \* MyApp.is_visible
    dragging_app,      \* MyApp.dragging_app: Option<usize>
    drag_target,       \* MyApp.drag_target: Option<usize>
    grid_drag_target,  \* MyApp.grid_drag_target: Option<(usize, usize)>
    selected_app,      \* MyApp.selected_app: Option<usize>
    press_candidate,   \* MyApp.press_candidate: Option<(usize, Instant, Pos2)>
    drop_anim,         \* MyApp.drop_anim: Option<DropAnim>
    crashed,           \* the process has panicked (index out of bounds)
    button,            \* the pointer: Some(row) while the primary button is held down on a row
    desktop,           \* the files the user can drop on the dock
    frame,             \* what the last frame was given and did
    frames_left,       \* frames left in the run
    detached,          \* while a drop animation holds an entry: the length of the
                       \* collection before the release, and whether an entry was
                       \* removed since
    call,              \* a direct call of one of the pure functions, with its result
    hold,              \* while a press candidate exists, and in the frame that ends
                       \* it: how long the press was held (ms), how far the pointer
                       \* travelled since the press (px), what the frame observed
    is_dragging_window,       \* MyApp.is_dragging_window
    drag_start_window_pos,    \* MyApp.drag_start_window_pos: Option<Pos2>
    drag_start_global_mouse,  \* MyApp.drag_start_global_mouse: Option<Pos2>
    resize_drag,              \* MyApp.resize_drag: Option<ResizeDragState>
    viewport,                 \* the window as the platform reports it: outer position,
                              \* inner size, monitor size
    runtime                   \* the background threads of build_runtime: the channels
                              \* icon_req_rx, rx (ui_rx) and action_rx, the event loop's
                              \* is_visible, the polling fallback's prev_show and prev_hide

vars == <<pinned_apps, config, is_visible, dragging_app, drag_target, grid_drag_target,
          selected_app, press_candidate, drop_anim, crashed, button, desktop, frame,
          frames_left, detached, call, hold, is_dragging_window, drag_start_window_pos,
          drag_start_global_mouse, resize_drag, viewport, runtime>>

-----------------------------------------------------------------------------
(* Option, Vec and string helpers                                          *)

None == <<>>
Some(x) == <<x>>
IsSome(o) == o # <<>>
Unwrap(o) == o[1]

At(v, i) == v[i + 1]
Indices(v) == 0 .. (Len(v) - 1)
Min(a, b) == IF a < b THEN a ELSE b
Max(a, b) == IF a > b THEN a ELSE b

\* Vec::remove(i)
VecRemove(v, i) == SubSeq(v, 1, i) \o SubSeq(v, i + 2, Len(v))
\* Vec::insert(i, x), i <= len
VecInsert(v, i, x) == SubSeq(v, 1, i) \o <<x>> \o SubSeq(v, i + 1, Len(v))
\* iter().position(|e| e == x)
Position(v, x) ==
    LET hits == {i \in Indices(v) : At(v, i) = x}
    IN  IF hits = {} THEN None ELSE Some(CHOOSE i \in hits : \A j \in hits : i <= j)

SeqRange(v) == {v[i] : i \in 1 .. Len(v)}

\* u8::to_ascii_lowercase
to_ascii_lowercase(c) == IF c \in 65 .. 90 THEN c + 32 ELSE c
\* char::is_whitespace, on ASCII
is_whitespace(c) == c \in {9, 10, 11, 12, 13, 32}

RECURSIVE trim_start(_)
trim_start(s) ==
    IF s # <<>> /\ is_whitespace(Head(s)) THEN trim_start(Tail(s)) ELSE s

RECURSIVE trim_end(_)
trim_end(s) ==
    IF s # <<>> /\ is_whitespace(s[Len(s)]) THEN trim_end(SubSeq(s, 1, Len(s) - 1)) ELSE s

\* str::trim
trim(s) == trim_end(trim_start(s))

-----------------------------------------------------------------------------
(* Identity key                                                            *)

normalize_path_key(path) == [i \in 1 .. Len(path) |-> to_ascii_lowercase(path[i])]

normalize_launch_key(path, args, working_dir) ==
    LET normalized_args == IF IsSome(args) THEN trim(Unwrap(args)) ELSE <<>>
        normalized_wd == IF IsSome(working_dir) THEN normalize_path_key(Unwrap(working_dir))
                         ELSE <<>>
    IN  normalize_path_key(path) \o <<124>> \o normalized_args \o <<124>> \o normalized_wd

\* PinnedApp::new (the display name is not modelled)
PinnedApp(path, launch_args, working_dir) ==
    [path |-> path, launch_args |-> launch_args, working_dir |-> working_dir,
     texture |-> FALSE, icon_requested |-> FALSE]

\* the key of a pinned entry, as try_add_pin and resolve_two_column_indices compute it
AppKey(app) == normalize_launch_key(app.path, app.launch_args, app.working_dir)

\* TwoColumnEntry::from_launch and TwoColumnEntry::key
TwoColumnEntry(path, args, working_dir) ==
    [path |-> path, args |-> args, working_dir |-> working_dir]
EntryKey(entry) == normalize_launch_key(entry.path, entry.args, entry.working_dir)

two_column_entry_from_app(app) == TwoColumnEntry(app.path, app.launch_args, app.working_dir)

-----------------------------------------------------------------------------
(* Layout reconciler                                                       *)

find_unused_index_by_key_mut_ignores_used(keys, target, used) ==
    LET hits == {i \in Indices(keys) : At(keys, i) = target}
    IN  IF hits = {} THEN None ELSE Some(CHOOSE i \in hits : \A j \in hits : i <= j)

find_unused_index_by_key(keys, target, used) ==
    LET hits == {i \in Indices(keys) : i \notin used /\ At(keys, i) = target}
    IN  IF hits = {} THEN None ELSE Some(CHOOSE i \in hits : \A j \in hits : i <= j)

\* one of the two loops over layout.left / layout.right: returns the indices resolved
\* and the indices marked used
RECURSIVE resolve_column(_, _, _, _)
resolve_column(keys, entries, used, out) ==
    IF entries = <<>> THEN [used |-> used, out |-> out]
    ELSE LET found == find_unused_index_by_key(keys, EntryKey(Head(entries)), used)
         IN  IF IsSome(found)
             THEN resolve_column(keys, Tail(entries), used \cup {Unwrap(found)},
                                 Append(out, Unwrap(found)))
             ELSE resolve_column(keys, Tail(entries), used, out)

\* the indices of a set, in increasing order
RECURSIVE Ascending(_)
Ascending(S) ==
    IF S = {} THEN <<>>
    ELSE LET m == CHOOSE i \in S : \A j \in S : i <= j
         IN  <<m>> \o Ascending(S \ {m})

unseen_appended_mut_right(left, right, unused) == <<left, right \o unused>>

unseen_appended(left, right, unused) == <<left \o unused, right>>

resolve_unused_mut_no_fallback(apps, l, r) ==
    unseen_appended(l.out, r.out, Ascending(Indices(apps) \ r.used))

\* after both loops: the alternating fallback, or the unused indices appended
resolve_unused(apps, l, r) ==
    IF l.out = <<>> /\ r.out = <<>>
    THEN <<Ascending({i \in Indices(apps) : i % 2 = 0}),
           Ascending({i \in Indices(apps) : i % 2 # 0})>>
    ELSE unseen_appended(l.out, r.out, Ascending(Indices(apps) \ r.used))

\* the loop over layout.right, given what the loop over layout.left resolved
resolve_right(apps, keys, layout, l) ==
    resolve_unused(apps, l, resolve_column(keys, layout.right, l.used, <<>>))

\* the loop over layout.left
resolve_left(apps, keys, layout) ==
    resolve_right(apps, keys, layout, resolve_column(keys, layout.left, {}, <<>>))

resolve_two_column_indices(apps, layout) ==
    IF apps = <<>> THEN <<<<>>, <<>>>>
    ELSE IF ~IsSome(layout)
    THEN resolve_unused(apps, [used |-> {}, out |-> <<>>], [used |-> {}, out |-> <<>>])
    ELSE resolve_left(apps, [i \in 1 .. Len(apps) |-> AppKey(apps[i])], Unwrap(layout))

find_column_slot(index, left, right) ==
    IF IsSome(Position(left, index)) THEN Some(<<0, Unwrap(Position(left, index))>>)
    ELSE IF IsSome(Position(right, index)) THEN Some(<<1, Unwrap(Position(right, index))>>)
    ELSE None

order_is_valid_mut_no_dup_check(order, total) ==
    \A k \in 1 .. Len(order) : order[k] < total

\* the validation loop: every index in range and seen once
order_is_valid(order, total) ==
    /\ \A k \in 1 .. Len(order) : order[k] < total
    /\ \A j, k \in 1 .. Len(order) : j # k => order[j] # order[k]

reorder_pinned_apps_by_columns_mut_unchanged(apps, left, right) == apps

reorder_pinned_apps_by_columns(apps, left, right) ==
    LET total == Len(apps)
        order == left \o right
    IN  IF total = 0 THEN apps
        ELSE IF Len(order) # total THEN apps
        ELSE IF ~order_is_valid(order, total) THEN apps
        ELSE [k \in 1 .. total |-> At(apps, order[k])]

two_column_layout_from_split_mut_all_left(apps, left_len) ==
    [left  |-> [k \in 1 .. Len(apps) |-> two_column_entry_from_app(apps[k])],
     right |-> <<>>]

two_column_layout_from_split(apps, left_len) ==
    LET split == Min(left_len, Len(apps))
    IN  [left  |-> [k \in 1 .. split |-> two_column_entry_from_app(apps[k])],
         right |-> [k \in 1 .. (Len(apps) - split) |->
                        two_column_entry_from_app(apps[split + k])]]

-----------------------------------------------------------------------------
(* Program constants                                                       *)

MAX_PINNED_APPS == 20
REORDER_HOLD_MS == 260
REORDER_MOVE_TOLERANCE == 18
DROP_ANIM_MS == 200
HEADER_HEIGHT == 28
ROW_HEIGHT == 46
CONTENT_PADDING == 9
ROW_SPACING == 5
ROW_GAP == 6
COL_GAP == 8
WINDOW_WIDTH == 320
WINDOW_HEIGHT == 640
MIN_WINDOW_WIDTH == 260
MIN_WINDOW_HEIGHT == 380
MIN_VISIBLE_WIDTH == 72
\* snap_threshold of handle_window_drag
SNAP_THRESHOLD == 48
\* the margin apply_resize_delta keeps to the monitor, and its limit without a monitor
RESIZE_MARGIN == 8
RESIZE_LIMIT_NO_MONITOR == 4096

(* Bounds of the model                                                     *)

\* timers stop counting here (above both thresholds)
ElapsedCap == 300
\* the user presses, points at and removes rows 0 .. MaxPointerRow only
MaxPointerRow == 2
\* files dropped in one frame
MaxDropped == 1
\* frames in one run of the dock
FrameBudget == 6
\* the pointer's travel during a hold is counted up to this many px
MovedCap == 40
\* how far above the centre of a row the pointer can be
PointerNudge == 10
\* entries of a collection handed to try_add_pin directly (the full dock apart)
MaxAddApps == 2
\* entries of a collection handed to the reconciler directly
MaxApps == 3
\* entries of a layout handed to the reconciler directly, both columns together
MaxLayoutLen == 3
\* frames in one run that starts from a full dock
FullBudget == 5
\* frames in a run of the window
WindowBudget == 6
\* pointer travel of a window gesture: a little, and beyond every monitor
NearDelta == 40
FarDelta == 2000
\* entries of a dock whose two-column release is called directly
MaxGridApps == 3
\* frames of a run that starts in two-column mode
GridBudget == 5

\* frames in a run of the dock with its icon worker
IconBudget == 5

\* frames in a run of the UI thread next to the event loop
VisibilityBudget == 4
\* actions that wait in the action channel
MaxActions == 2
\* events that wait in the UI channel
MaxEvents == 3

\* the time between two frames, in ms
FrameDts == {100, 300}

-----------------------------------------------------------------------------
(* Geometry of the rows (window-local pixels; the list is not scrolled)    *)

ListTop == HEADER_HEIGHT + CONTENT_PADDING
ListWidth == Max(WINDOW_WIDTH - 2 * CONTENT_PADDING, 160)
CellWidth == Max(ListWidth - COL_GAP, 220) \div 2
column_left_x == CONTENT_PADDING
column_right_x == column_left_x + CellWidth + COL_GAP

\* top of the row drawn at visual slot v of the single-column list
ListRowTop(v) == ListTop + v * (ROW_HEIGHT + ROW_SPACING)
\* top of grid row r
GridRowTop(r) == ListTop + r * (ROW_HEIGHT + ROW_GAP)
\* rect.center().y
CenterY(top) == top + ROW_HEIGHT \div 2

Pos2(x, y) == [x |-> x, y |-> y]
\* Pos2::distance(a, b) > d, on integers
DistanceExceeds(a, b, d) ==
    (a.x - b.x) * (a.x - b.x) + (a.y - b.y) * (a.y - b.y) > d * d

\* first rect (given by its top) whose centre is below the pointer, else rects.len()
slot_from_pointer(pointer_y, rects) ==
    LET hits == {k \in 1 .. Len(rects) : pointer_y < CenterY(rects[k])}
    IN  IF hits = {} THEN Len(rects) ELSE (CHOOSE k \in hits : \A j \in hits : k <= j) - 1

-----------------------------------------------------------------------------
(* The application state as one record, so that the steps of a frame       *)
(* compose in the order MyApp::update runs them                            *)

St == [pinned_apps |-> pinned_apps, config |-> config, is_visible |-> is_visible,
       dragging_app |-> dragging_app, drag_target |-> drag_target,
       grid_drag_target |-> grid_drag_target, selected_app |-> selected_app,
       press_candidate |-> press_candidate, drop_anim |-> drop_anim,
       crashed |-> crashed, frame |-> frame]

\* what a frame did: the operation it was given, whether the drop animation committed
\* (and where, and the length of the collection right after), the result of each
\* add-pin, whether an entry was removed (and its index), how often the configuration was saved,
\* the last OuterPosition and InnerSize commands it sent
NoFrame == [op |-> "init", committed |-> FALSE, commit |-> None, add |-> <<>>,
            removed |-> FALSE, remove_idx |-> None, saves |-> 0, position |-> None,
            size |-> None, icon_requests |-> <<>>]

\* build_runtime: three empty channels, the event loop starts with is_visible = true,
\* the polling fallback with no chord seen
build_runtime ==
    [icon_req_rx |-> <<>>, rx |-> <<>>, action_rx |-> <<>>, is_visible |-> TRUE,
     prev_show |-> FALSE, prev_hide |-> FALSE]

\* AppConfig::default()
DefaultConfig ==
    [pinned_apps |-> <<>>, two_column_mode |-> FALSE, two_column_layout |-> None,
     last_pos |-> None, last_size |-> None]

\* MyApp::new over a loaded configuration: the pins are rebuilt from config.pinned_apps
NewApp(cfg, apps) ==
    /\ pinned_apps = apps
    /\ config = cfg
    /\ is_visible = TRUE
    /\ dragging_app = None
    /\ drag_target = None
    /\ grid_drag_target = None
    /\ selected_app = None
    /\ press_candidate = None
    /\ drop_anim = None
    /\ crashed = FALSE
    /\ button = None
    /\ frame = NoFrame
    /\ detached = None
    /\ hold = None
    /\ is_dragging_window = FALSE
    /\ drag_start_window_pos = None
    /\ drag_start_global_mouse = None
    /\ resize_drag = None
    /\ runtime = build_runtime

\* start.elapsed() of the two timers, dt later
AdvanceTimers(s, dt) ==
    LET tick(e) == Min(e + dt, ElapsedCap)
    IN  [s EXCEPT
           !.press_candidate = IF IsSome(@) THEN Some([Unwrap(@) EXCEPT !.elapsed = tick(@)])
                               ELSE @,
           !.drop_anim = IF IsSome(@) THEN Some([Unwrap(@) EXCEPT !.elapsed = tick(@)])
                         ELSE @]

start_show_transition(s) == IF ~s.is_visible THEN [s EXCEPT !.is_visible = TRUE] ELSE s

start_hide_transition(s) == IF s.is_visible THEN [s EXCEPT !.is_visible = FALSE] ELSE s

\* events::UserEvent
UserEvent(kind) == [kind |-> kind]

IconReady(result) == [kind |-> "IconReady", result |-> result]

\* the IconReady arm: the first pin of the collection with the result's path gets the
\* texture if the result has an image; the search stops at that pin
icon_ready(s, result) ==
    LET hits == {k \in 1 .. Len(s.pinned_apps) : s.pinned_apps[k].path = result.path}
    IN  IF hits = {} \/ ~result.image THEN s
        ELSE [s EXCEPT !.pinned_apps[CHOOSE k \in hits : \A j \in hits : k <= j].texture = TRUE]

RECURSIVE handle_runtime_events(_, _)
handle_runtime_events(s, events) ==
    IF events = <<>> THEN s
    ELSE handle_runtime_events(
             IF Head(events).kind = "Show" THEN start_show_transition(s)
             ELSE IF Head(events).kind = "Hide" THEN start_hide_transition(s)
             ELSE IF Head(events).kind = "IconReady" THEN icon_ready(s, Head(events).result)
             ELSE s,
             Tail(events))

\* sync_config_pins that saves the configuration without copying the paths
sync_config_pins_mut_saves_only(s) == [s EXCEPT !.frame.saves = @ + 1]

sync_config_pins(s) ==
    [s EXCEPT !.config.pinned_apps = [k \in 1 .. Len(s.pinned_apps) |-> s.pinned_apps[k].path],
              !.frame.saves = @ + 1]

\* the body of `if let Some(done) = self.drop_anim.take()`
commit_drop_mut_appends(s, item, insert_at) ==
    [sync_config_pins(
         [s EXCEPT !.drop_anim = None,
                   !.pinned_apps = Append(@, item),
                   !.frame.committed = TRUE,
                   !.frame.commit = Some([at |-> insert_at, len |-> Len(s.pinned_apps) + 1])])
     EXCEPT !.selected_app = Some(insert_at)]

commit_drop(s, item, insert_at) ==
    [sync_config_pins(
         [s EXCEPT !.drop_anim = None,
                   !.pinned_apps = VecInsert(@, insert_at, item),
                   !.frame.committed = TRUE,
                   !.frame.commit = Some([at |-> insert_at, len |-> Len(s.pinned_apps) + 1])])
     EXCEPT !.selected_app = Some(insert_at)]

update_drop_animation(s) ==
    IF IsSome(s.drop_anim) /\ Unwrap(s.drop_anim).elapsed >= DROP_ANIM_MS
    THEN commit_drop(s, Unwrap(s.drop_anim).item,
                     Min(Unwrap(s.drop_anim).insert_at, Len(s.pinned_apps)))
    ELSE s

\* config.two_column_layout = Some(two_column_layout_from_split(&pinned_apps, left_len))
store_layout(s, left_len) ==
    [s EXCEPT !.config.two_column_layout =
                  Some(two_column_layout_from_split(s.pinned_apps, left_len))]

\* reorder_pinned_apps_by_columns(&mut pinned_apps, left, right), then the layout
\* re-derived with split point left.len()
reorder_and_store(s, left, right) ==
    store_layout([s EXCEPT !.pinned_apps = reorder_pinned_apps_by_columns(@, left, right)],
                 Len(left))

resolve_and_store(s, split) == reorder_and_store(s, split[1], split[2])

sync_two_column_layout_from_current_mut_skips(s) == s

sync_two_column_layout_from_current(s) ==
    IF ~s.config.two_column_mode THEN s
    ELSE resolve_and_store(
             s, resolve_two_column_indices(s.pinned_apps, s.config.two_column_layout))

\* if self.config.two_column_mode { self.sync_two_column_layout_from_current(); }
sync_layout_in_two_column_mode(s) ==
    IF s.config.two_column_mode THEN sync_two_column_layout_from_current(s) ELSE s

\* Path::extension of a file name, lower-cased: the characters after its last dot
extension_lower(path) ==
    LET dots == {i \in 2 .. Len(path) : path[i] = 46}
    IN  IF dots = {} THEN None
        ELSE LET d == CHOOSE i \in dots : \A j \in dots : j <= i
             IN  Some(normalize_path_key(SubSeq(path, d + 1, Len(path))))

\* "exe", "lnk"
is_supported_app_path(path, is_dir) ==
    \/ is_dir
    \/ extension_lower(path) \in {Some(<<101, 120, 101>>), Some(<<108, 110, 107>>)}

\* a dropped file: its path, and what the file system and the shell say about it
\*   exists      path.exists()
\*   is_dir      is_dir() of the resolved path
\*   shortcut    resolve_shortcut(path): None, or the target with its arguments,
\*               working directory and whether the target exists
is_shortcut(file) == extension_lower(file.path) = Some(<<108, 110, 107>>)

\* resolve_shortcut gave nothing, or a target that does not exist
shortcut_unresolved(file) ==
    is_shortcut(file) /\ (~IsSome(file.shortcut) \/ ~Unwrap(file.shortcut).target_exists)

\* resolved_path, launch_args, working_dir
resolved_launch(file) ==
    IF is_shortcut(file) /\ ~shortcut_unresolved(file)
    THEN [path |-> Unwrap(file.shortcut).target_path,
          launch_args |-> Unwrap(file.shortcut).arguments,
          working_dir |-> Unwrap(file.shortcut).working_dir]
    ELSE [path |-> file.path, launch_args |-> None, working_dir |-> None]

try_add_launch_mut_no_duplicate_check(s, launch, key) ==
    [s |-> [s EXCEPT !.pinned_apps =
              Append(@, PinnedApp(launch.path, launch.launch_args, launch.working_dir))],
     result |-> "Added"]

\* the duplicate check and the push, given the launch target and its key
try_add_launch(s, launch, key) ==
    IF \E k \in 1 .. Len(s.pinned_apps) : AppKey(s.pinned_apps[k]) = key
    THEN [s |-> s, result |-> "Duplicate"]
    ELSE [s |-> [s EXCEPT !.pinned_apps =
                    Append(@, PinnedApp(launch.path, launch.launch_args,
                                        launch.working_dir))],
          result |-> "Added"]

try_add_resolved(s, file, launch) ==
    IF ~is_supported_app_path(launch.path, file.is_dir)
    THEN [s |-> s, result |-> "Unsupported"]
    ELSE try_add_launch(s, launch,
                        normalize_launch_key(launch.path, launch.launch_args,
                                             launch.working_dir))

try_add_pin_mut_no_limit(s, file) ==
    IF ~file.exists THEN [s |-> s, result |-> "Missing"]
    ELSE IF shortcut_unresolved(file) THEN [s |-> s, result |-> "ShortcutUnresolved"]
    ELSE try_add_resolved(s, file, resolved_launch(file))

try_add_pin(s, file) ==
    IF Len(s.pinned_apps) >= MAX_PINNED_APPS THEN [s |-> s, result |-> "LimitReached"]
    ELSE IF ~file.exists THEN [s |-> s, result |-> "Missing"]
    ELSE IF shortcut_unresolved(file) THEN [s |-> s, result |-> "ShortcutUnresolved"]
    ELSE try_add_resolved(s, file, resolved_launch(file))

\* the loop of handle_dropped_files: [s, changed, results]
RECURSIVE add_dropped(_, _, _, _)
add_dropped(s, files, changed, results) ==
    IF files = <<>> THEN [s |-> s, changed |-> changed, results |-> results]
    ELSE LET r == try_add_pin(s, Head(files))
         IN  IF r.result = "LimitReached"
             THEN [s |-> r.s, changed |-> changed, results |-> Append(results, r.result)]
             ELSE add_dropped(r.s, Tail(files), changed \/ r.result = "Added",
                              Append(results, r.result))

\* after the loop: `if changed { ... }`
dropped_files_done(s, changed) ==
    IF changed THEN sync_config_pins(sync_layout_in_two_column_mode(s)) ELSE s

dropped_files_added(r) == dropped_files_done([r.s EXCEPT !.frame.add = r.results], r.changed)

handle_dropped_files(s, dropped_files) ==
    IF dropped_files = <<>> THEN s
    ELSE dropped_files_added(add_dropped(s, dropped_files, FALSE, <<>>))

clear_gesture_mut_keeps_drop_anim(s) ==
    [s EXCEPT !.dragging_app = None, !.drag_target = None, !.press_candidate = None,
              !.grid_drag_target = None]

\* the five assignments that open set_two_column_mode
clear_gesture(s) ==
    [s EXCEPT !.dragging_app = None, !.drag_target = None, !.press_candidate = None,
              !.drop_anim = None, !.grid_drag_target = None]

\* both branches: resolve, reorder, store the layout, set the flag
switch_mode(s, enabled) ==
    [resolve_and_store(
         s, resolve_two_column_indices(s.pinned_apps, s.config.two_column_layout))
     EXCEPT !.config.two_column_mode = enabled]

set_two_column_mode(s, enabled) ==
    IF s.config.two_column_mode = enabled THEN s
    ELSE sync_config_pins(switch_mode(clear_gesture(s), enabled))

-----------------------------------------------------------------------------
(* Drawing the list: what a frame is given                                 *)
(*   pointer           hover_pos(): None or Some(Pos2)                     *)
(*   down_on           the row whose response has is_pointer_button_down_on *)
(*   primary_down      pointer.primary_down()                              *)
(*   primary_released  pointer.primary_released()                          *)
(*   clicked           the row whose response has clicked()                *)
(*   remove            the row whose context menu's Remove was clicked     *)
(*   toggle            the Two-column mode checkbox changed                *)

\* the IconRequest sent for each drawn row whose pin has no texture and no request
\* yet: the paths, in row order
IconRequests(apps, drawn) ==
    LET wanted == SelectSeq([k \in 1 .. Len(apps) |-> k],
                            LAMBDA k : /\ (k - 1) \in drawn
                                       /\ ~apps[k].texture
                                       /\ ~apps[k].icon_requested)
    IN  [i \in 1 .. Len(wanted) |-> apps[wanted[i]].path]

\* the rows loop of both draw functions, for the rows `drawn` (indices of pinned_apps)
draw_rows(s, in, drawn) ==
    LET pressed == /\ IsSome(in.down_on)
                   /\ Unwrap(in.down_on) \in drawn
                   /\ ~IsSome(s.drop_anim)
                   /\ ~IsSome(s.dragging_app)
                   /\ ~IsSome(s.press_candidate)
                   /\ IsSome(in.pointer)
        clicked == /\ ~IsSome(s.dragging_app)
                   /\ IsSome(in.clicked)
                   /\ Unwrap(in.clicked) \in drawn
    IN  [s EXCEPT
           !.press_candidate =
               IF pressed
               THEN Some([idx |-> Unwrap(in.down_on), elapsed |-> 0,
                          start_pos |-> Unwrap(in.pointer)])
               ELSE @,
           !.pinned_apps =
               [k \in 1 .. Len(@) |->
                   IF (k - 1) \in drawn /\ ~@[k].texture /\ ~@[k].icon_requested
                   THEN [@[k] EXCEPT !.icon_requested = TRUE]
                   ELSE @[k]],
           !.frame.icon_requests = @ \o IconRequests(s.pinned_apps, drawn),
           !.selected_app = IF clicked THEN in.clicked ELSE @]

removed_row(in, drawn) ==
    IF IsSome(in.remove) /\ Unwrap(in.remove) \in drawn THEN in.remove ELSE None

\* the rows of the single-column list, in order: pinned_apps without the dragged row
list_rows(s) ==
    LET drag_i == IF IsSome(s.drop_anim) THEN None ELSE s.dragging_app
    IN  Ascending({i \in Indices(s.pinned_apps) : drag_i # Some(i)})

\* rects_for_target, each rect by its top: the placeholder pushes the rows after it down
list_rects(s) ==
    LET placeholder_slot == IF IsSome(s.drop_anim) THEN Some(Unwrap(s.drop_anim).insert_at)
                            ELSE s.drag_target
        shown == IsSome(s.dragging_app) \/ IsSome(s.drop_anim)
        visual(pos) == IF shown /\ IsSome(placeholder_slot) /\ Unwrap(placeholder_slot) <= pos
                       THEN pos + 1 ELSE pos
    IN  [k \in 1 .. Len(list_rows(s)) |-> ListRowTop(visual(k - 1))]

list_press_candidate_mut_keeps_candidate(s, in) ==
    IF ~IsSome(s.press_candidate) THEN s
    ELSE IF ~in.primary_down THEN [s EXCEPT !.press_candidate = None]
    ELSE IF ~IsSome(in.pointer) THEN s
    ELSE IF DistanceExceeds(Unwrap(in.pointer), Unwrap(s.press_candidate).start_pos,
                            REORDER_MOVE_TOLERANCE)
    THEN [s EXCEPT !.press_candidate = None]
    ELSE IF Unwrap(s.press_candidate).elapsed >= REORDER_HOLD_MS
    THEN [s EXCEPT !.dragging_app = Some(Unwrap(s.press_candidate).idx),
                   !.drag_target = Some(Min(Unwrap(s.press_candidate).idx,
                                            Len(s.pinned_apps)))]
    ELSE s

list_press_candidate_mut_no_hold_time(s, in) ==
    IF ~IsSome(s.press_candidate) THEN s
    ELSE IF ~in.primary_down THEN [s EXCEPT !.press_candidate = None]
    ELSE IF ~IsSome(in.pointer) THEN s
    ELSE IF DistanceExceeds(Unwrap(in.pointer), Unwrap(s.press_candidate).start_pos,
                            REORDER_MOVE_TOLERANCE)
    THEN [s EXCEPT !.press_candidate = None]
    ELSE [s EXCEPT !.dragging_app = Some(Unwrap(s.press_candidate).idx),
                   !.drag_target = Some(Min(Unwrap(s.press_candidate).idx,
                                            Len(s.pinned_apps))),
                   !.press_candidate = None]

\* the press-candidate block of draw_pinned_list
list_press_candidate(s, in) ==
    IF ~IsSome(s.press_candidate) THEN s
    ELSE LET pc == Unwrap(s.press_candidate)
         IN  IF ~in.primary_down THEN [s EXCEPT !.press_candidate = None]
             ELSE IF ~IsSome(in.pointer) THEN s
             ELSE IF DistanceExceeds(Unwrap(in.pointer), pc.start_pos, REORDER_MOVE_TOLERANCE)
             THEN [s EXCEPT !.press_candidate = None]
             ELSE IF pc.elapsed >= REORDER_HOLD_MS
             THEN [s EXCEPT !.dragging_app = Some(pc.idx),
                            !.drag_target = Some(Min(pc.idx, Len(s.pinned_apps))),
                            !.press_candidate = None]
             ELSE s

detach_mut_no_min(s, from, slot) ==
    [s EXCEPT !.dragging_app = None,
              !.drag_target = None,
              !.pinned_apps = VecRemove(@, from),
              !.drop_anim = Some([item |-> At(s.pinned_apps, from),
                                  insert_at |-> slot,
                                  elapsed |-> 0])]

\* the entry leaves the collection and the drop animation holds it
detach(s, from, slot) ==
    [s EXCEPT !.dragging_app = None,
              !.drag_target = None,
              !.pinned_apps = VecRemove(@, from),
              !.drop_anim = Some([item |-> At(s.pinned_apps, from),
                                  insert_at |-> Min(slot, Len(s.pinned_apps) - 1),
                                  elapsed |-> 0])]

\* the release block of draw_pinned_list (start_y and end_y are paint only)
list_release(s, in) ==
    IF ~IsSome(s.drop_anim) /\ IsSome(s.dragging_app) /\ in.primary_released
    THEN IF IsSome(s.drag_target) /\ Unwrap(s.dragging_app) < Len(s.pinned_apps)
         THEN detach(s, Unwrap(s.dragging_app), Unwrap(s.drag_target))
         ELSE [s EXCEPT !.dragging_app = None, !.drag_target = None]
    ELSE s

\* draw_drag_row_overlay reads pinned_apps[from] without a bounds check
draw_drag_row_overlay(s, in) ==
    IF ~IsSome(s.drop_anim) /\ IsSome(s.dragging_app) /\ IsSome(in.pointer)
       /\ Unwrap(s.dragging_app) >= Len(s.pinned_apps)
    THEN [s EXCEPT !.crashed = TRUE]
    ELSE s

\* the target block of draw_pinned_list
list_target(s, in, drag_i, rects_for_target) ==
    IF IsSome(drag_i) /\ IsSome(in.pointer)
    THEN [s EXCEPT !.drag_target =
             Some(slot_from_pointer(Unwrap(in.pointer).y, rects_for_target))]
    ELSE s

\* draw_pinned_list over a non-empty collection: rows, target, press candidate,
\* release, overlay; drag_i and rects_for_target are those of the start of the frame
draw_pinned_single_rows(s, in) ==
    [s |-> draw_drag_row_overlay(
               list_release(
                   list_press_candidate(
                       list_target(draw_rows(s, in, SeqRange(list_rows(s))), in,
                                   IF IsSome(s.drop_anim) THEN None ELSE s.dragging_app,
                                   list_rects(s)),
                       in),
                   in),
               in),
     remove_idx |-> removed_row(in, SeqRange(list_rows(s)))]

draw_pinned_single(s, in) ==
    IF s.pinned_apps = <<>>
    THEN [s |-> [s EXCEPT !.grid_drag_target = None], remove_idx |-> None]
    ELSE draw_pinned_single_rows([s EXCEPT !.grid_drag_target = None], in)

\* a column's draw list: its indices without the dragged one
column_draw(indices, dragging_idx) ==
    IF IsSome(dragging_idx) /\ IsSome(Position(indices, Unwrap(dragging_idx)))
    THEN VecRemove(indices, Unwrap(Position(indices, Unwrap(dragging_idx))))
    ELSE indices

\* left_rects / right_rects, each rect by its top
grid_rects(draw) == [k \in 1 .. Len(draw) |-> GridRowTop(k - 1)]

grid_press_candidate(s, in, left_indices, right_indices) ==
    IF ~IsSome(s.press_candidate) THEN s
    ELSE LET pc == Unwrap(s.press_candidate)
         IN  IF ~in.primary_down THEN [s EXCEPT !.press_candidate = None]
             ELSE IF ~IsSome(in.pointer) THEN s
             ELSE IF DistanceExceeds(Unwrap(in.pointer), pc.start_pos, REORDER_MOVE_TOLERANCE)
             THEN [s EXCEPT !.press_candidate = None]
             ELSE IF pc.elapsed >= REORDER_HOLD_MS
             THEN [s EXCEPT !.dragging_app = Some(pc.idx),
                            !.drag_target = None,
                            !.grid_drag_target =
                                find_column_slot(pc.idx, left_indices, right_indices),
                            !.press_candidate = None]
             ELSE s

\* what the release block always ends with
grid_release_clear(s) ==
    [s EXCEPT !.dragging_app = None, !.grid_drag_target = None, !.drag_target = None]

grid_release_select(s, selected_idx) ==
    [s EXCEPT !.selected_app = Some(Min(selected_idx, Max(Len(s.pinned_apps) - 1, 0)))]

grid_release_commit_mut_always(s, left_indices, right_indices, left_new, right_new, target_col, insert_slot) ==
    grid_release_select(
        sync_config_pins(reorder_and_store(grid_release_clear(s), left_new, right_new)),
        IF target_col = 0 THEN insert_slot ELSE Len(left_new) + insert_slot)

\* `if left_new != left_indices || right_new != right_indices { ... }`
grid_release_commit(s, left_indices, right_indices, left_new, right_new, target_col, insert_slot) ==
    IF left_new # left_indices \/ right_new # right_indices
    THEN grid_release_select(
             sync_config_pins(reorder_and_store(grid_release_clear(s), left_new, right_new)),
             IF target_col = 0 THEN insert_slot ELSE Len(left_new) + insert_slot)
    ELSE grid_release_clear(s)

grid_release_insert_mut_front(s, left_indices, right_indices, from_idx, left_rem, right_rem, target_col, insert_slot) ==
    grid_release_commit(
        s, left_indices, right_indices,
        IF target_col = 0 THEN VecInsert(left_rem, 0, from_idx) ELSE left_rem,
        IF target_col = 0 THEN right_rem ELSE VecInsert(right_rem, 0, from_idx),
        target_col, 0)

\* insert_vec.insert(insert_slot, from_idx)
grid_release_insert(s, left_indices, right_indices, from_idx, left_rem, right_rem, target_col, insert_slot) ==
    grid_release_commit(
        s, left_indices, right_indices,
        IF target_col = 0 THEN VecInsert(left_rem, insert_slot, from_idx) ELSE left_rem,
        IF target_col = 0 THEN right_rem ELSE VecInsert(right_rem, insert_slot, from_idx),
        target_col, insert_slot)

\* the target taken from grid_drag_target, or the slot the drag came from
grid_release_target(s, left_indices, right_indices, from_idx, left_rem, right_rem, target) ==
    grid_release_insert(
        s, left_indices, right_indices, from_idx, left_rem, right_rem, target[1],
        Min(target[2], Len(IF target[1] = 0 THEN left_rem ELSE right_rem)))

\* the dragged index removed from its column
grid_release_from(s, left_indices, right_indices, from_idx, from) ==
    IF ~IsSome(from) THEN grid_release_clear(s)
    ELSE grid_release_target(
             s, left_indices, right_indices, from_idx,
             IF Unwrap(from)[1] = 0 THEN VecRemove(left_indices, Unwrap(from)[2])
             ELSE left_indices,
             IF Unwrap(from)[1] = 0 THEN right_indices
             ELSE VecRemove(right_indices, Unwrap(from)[2]),
             IF IsSome(s.grid_drag_target) THEN Unwrap(s.grid_drag_target)
             ELSE Unwrap(from))

\* the release block of draw_pinned_grid
grid_release(s, in, left_indices, right_indices) ==
    IF IsSome(s.dragging_app) /\ in.primary_released
    THEN grid_release_from(
             s, left_indices, right_indices, Unwrap(s.dragging_app),
             find_column_slot(Unwrap(s.dragging_app), left_indices, right_indices))
    ELSE s

grid_target_slot(s, in, target_col, target_draw) ==
    [s EXCEPT !.grid_drag_target =
         Some(<<target_col,
                Min(slot_from_pointer(Unwrap(in.pointer).y, grid_rects(target_draw)),
                    Len(target_draw))>>)]

grid_target_col(s, in, target_col, left_draw, right_draw) ==
    grid_target_slot(s, in, target_col, IF target_col = 0 THEN left_draw ELSE right_draw)

\* the target block of draw_pinned_grid
grid_target(s, in, dragging_idx, left_draw, right_draw) ==
    IF IsSome(dragging_idx) /\ IsSome(in.pointer)
    THEN grid_target_col(s, in, IF Unwrap(in.pointer).x < column_right_x THEN 0 ELSE 1,
                         left_draw, right_draw)
    ELSE s

\* rows, press candidate, target, release, over the two draw lists
draw_pinned_grid_rows(s, in, left_indices, right_indices, dragging_idx, left_draw, right_draw) ==
    [s |-> grid_release(
               grid_target(
                   grid_press_candidate(
                       draw_rows(s, in, SeqRange(left_draw) \cup SeqRange(right_draw)),
                       in, left_indices, right_indices),
                   in, dragging_idx, left_draw, right_draw),
               in, left_indices, right_indices),
     remove_idx |-> removed_row(in, SeqRange(left_draw) \cup SeqRange(right_draw))]

\* self.dragging_app.filter(|idx| *idx < self.pinned_apps.len())
grid_dragging_idx(s) ==
    IF IsSome(s.dragging_app) /\ Unwrap(s.dragging_app) < Len(s.pinned_apps)
    THEN s.dragging_app ELSE None

\* left_draw and right_draw: the dragged index leaves the first column that holds it
draw_pinned_grid_columns(s, in, left_indices, right_indices, dragging_idx) ==
    draw_pinned_grid_rows(
        s, in, left_indices, right_indices, dragging_idx,
        column_draw(left_indices, dragging_idx),
        IF column_draw(left_indices, dragging_idx) # left_indices THEN right_indices
        ELSE column_draw(right_indices, dragging_idx))

draw_pinned_grid_split(s, in, split) ==
    draw_pinned_grid_columns(s, in, split[1], split[2], grid_dragging_idx(s))

draw_pinned_grid(s, in) ==
    IF s.pinned_apps = <<>> THEN [s |-> s, remove_idx |-> None]
    ELSE draw_pinned_grid_split(
             s, in, resolve_two_column_indices(s.pinned_apps, s.config.two_column_layout))

draw_pinned_list(s, in) ==
    IF s.config.two_column_mode THEN draw_pinned_grid(s, in) ELSE draw_pinned_single(s, in)

\* draw_main_panel: the context menu, then the list (the window geometry is elsewhere)
draw_main_panel(s, in) ==
    draw_pinned_list(
        IF in.toggle THEN set_two_column_mode(s, ~s.config.two_column_mode) ELSE s, in)

remove_select_mut_no_shift(s, index) ==
    [s EXCEPT !.selected_app =
         IF IsSome(@) /\ Unwrap(@) = index THEN None ELSE @]

\* the selection after the entry at index is gone
remove_select(s, index) ==
    [s EXCEPT !.selected_app =
         IF ~IsSome(@) THEN @
         ELSE IF Unwrap(@) = index THEN None
         ELSE IF Unwrap(@) > index THEN Some(Unwrap(@) - 1)
         ELSE @]

remove_pin(s, index) ==
    IF index < Len(s.pinned_apps)
    THEN remove_select(
             sync_config_pins(
                 sync_layout_in_two_column_mode(
                     [s EXCEPT !.pinned_apps = VecRemove(@, index),
                               !.frame.removed = TRUE,
                               !.frame.remove_idx = Some(index)])),
             index)
    ELSE s

\* the removal block at the end of MyApp::update, given what draw_main_panel returned
update_removal(d) ==
    IF IsSome(d.remove_idx) /\ ~d.s.crashed THEN remove_pin(d.s, Unwrap(d.remove_idx))
    ELSE d.s

\* `if !self.is_visible { return; }`, then the panel
update_visible(s, in) ==
    IF ~s.is_visible THEN s ELSE update_removal(draw_main_panel(s, in))

\* MyApp::update, one frame
update(s, in) ==
    update_visible(
        handle_dropped_files(
            update_drop_animation(
                handle_runtime_events(
                    AdvanceTimers([s EXCEPT !.frame = [NoFrame EXCEPT !.op = in.op]], in.dt),
                    in.events)),
            in.dropped_files),
        in)

-----------------------------------------------------------------------------
(* The window: move by the header, resize by the edge zones, the           *)
(* visibility clamp. Positions and sizes are f32 points, here integers     *)

vec2(x, y) == [x |-> x, y |-> y]
Plus(a, b) == [x |-> a.x + b.x, y |-> a.y + b.y]
Minus(a, b) == [x |-> a.x - b.x, y |-> a.y - b.y]
Abs(v) == IF v < 0 THEN -v ELSE v
\* f32::clamp, called with lo <= hi
Clamp(v, lo, hi) == IF v < lo THEN lo ELSE IF v > hi THEN hi ELSE v
\* f32::is_finite: every integer is finite
is_finite(v) == v \in Int

ResizeEdges == {"Left", "Right", "Bottom", "BottomLeft", "BottomRight"}

sanitize_window_size(size) ==
    vec2(Max(IF is_finite(size.x) THEN size.x ELSE WINDOW_WIDTH, MIN_WINDOW_WIDTH),
         Max(IF is_finite(size.y) THEN size.y ELSE WINDOW_HEIGHT, MIN_WINDOW_HEIGHT))

clamp_window_origin_mut_no_right_limit(pos, size, monitor_size) ==
    Pos2(Max(pos.x, MIN_VISIBLE_WIDTH - size.x),
         Clamp(pos.y, 0, Max(monitor_size.y - HEADER_HEIGHT, 0)))

clamp_window_origin(pos, size, monitor_size) ==
    Pos2(Clamp(pos.x, MIN_VISIBLE_WIDTH - size.x,
               Max(monitor_size.x - MIN_VISIBLE_WIDTH, MIN_VISIBLE_WIDTH - size.x)),
         Clamp(pos.y, 0, Max(monitor_size.y - HEADER_HEIGHT, 0)))

\* the window fields of MyApp as one record, with what the frame has sent so far
Win == [is_visible |-> is_visible, config |-> config,
        is_dragging_window |-> is_dragging_window,
        drag_start_window_pos |-> drag_start_window_pos,
        drag_start_global_mouse |-> drag_start_global_mouse,
        resize_drag |-> resize_drag, viewport |-> viewport, frame |-> frame]

\* ctx.send_viewport_cmd(OuterPosition(pos)), ctx.send_viewport_cmd(InnerSize(size))
send_outer_position(w, pos) == [w EXCEPT !.frame.position = Some(pos)]
send_inner_size(w, size) == [w EXCEPT !.frame.size = Some(size)]

save_window_geometry(w, pos, size) ==
    [w EXCEPT !.config.last_pos = Some(pos),
              !.config.last_size = Some(sanitize_window_size(size)),
              !.frame.saves = @ + 1]

\* the move of ensure_window_visible when the clamped origin is more than half a
\* point away
ensure_window_visible_at(w, window_size, clamped) ==
    IF \/ 2 * Abs(clamped.x - w.viewport.outer_pos.x) > 1
       \/ 2 * Abs(clamped.y - w.viewport.outer_pos.y) > 1
    THEN save_window_geometry(send_outer_position(w, clamped), clamped, window_size)
    ELSE w

ensure_window_visible(w) ==
    IF w.is_dragging_window \/ IsSome(w.resize_drag) THEN w
    ELSE IF ~IsSome(w.viewport.monitor_size) THEN w
    ELSE ensure_window_visible_at(
             w, sanitize_window_size(w.viewport.inner_size),
             clamp_window_origin(w.viewport.outer_pos,
                                 sanitize_window_size(w.viewport.inner_size),
                                 Unwrap(w.viewport.monitor_size)))

\* one axis of the snap on release: the near edge first, else the far edge
snap_axis_mut_no_far_edge(p, extent, monitor) == IF Abs(p) < SNAP_THRESHOLD THEN 0 ELSE p

snap_axis(p, extent, monitor) ==
    IF Abs(p) < SNAP_THRESHOLD THEN 0
    ELSE IF Abs(p + extent - monitor) < SNAP_THRESHOLD THEN monitor - extent
    ELSE p

\* new_pos of the release branch of handle_window_drag
window_drag_release_pos(w, window_size) ==
    IF IsSome(w.viewport.monitor_size)
    THEN clamp_window_origin(
             Pos2(snap_axis(w.viewport.outer_pos.x, window_size.x,
                            Unwrap(w.viewport.monitor_size).x),
                  snap_axis(w.viewport.outer_pos.y, window_size.y,
                            Unwrap(w.viewport.monitor_size).y)),
             window_size, Unwrap(w.viewport.monitor_size))
    ELSE w.viewport.outer_pos

window_drag_commit(w, new_pos, window_size) ==
    [save_window_geometry(send_outer_position(w, new_pos), new_pos, window_size) EXCEPT
        !.drag_start_window_pos = None, !.drag_start_global_mouse = None]

window_drag_release(w) ==
    window_drag_commit([w EXCEPT !.is_dragging_window = FALSE],
                       window_drag_release_pos(w, sanitize_window_size(w.viewport.inner_size)),
                       sanitize_window_size(w.viewport.inner_size))

\* new_origin of the per-frame branch of handle_window_drag
window_drag_origin(w, new_origin) ==
    IF IsSome(w.viewport.monitor_size)
    THEN clamp_window_origin(new_origin, sanitize_window_size(w.viewport.inner_size),
                             Unwrap(w.viewport.monitor_size))
    ELSE new_origin

window_drag_move(w, in) ==
    IF IsSome(w.drag_start_window_pos) /\ IsSome(w.drag_start_global_mouse) /\ IsSome(in.hover_pos)
    THEN send_outer_position(
             w, window_drag_origin(
                    w, Plus(Unwrap(w.drag_start_window_pos),
                            Minus(Plus(w.viewport.outer_pos, Unwrap(in.hover_pos)),
                                  Unwrap(w.drag_start_global_mouse)))))
    ELSE w

window_drag_start(w, in) ==
    IF in.drag_started = Some("Header")
    THEN [w EXCEPT !.is_dragging_window = TRUE,
                   !.drag_start_window_pos = Some(w.viewport.outer_pos),
                   !.drag_start_global_mouse =
                       IF IsSome(in.hover_pos)
                       THEN Some(Plus(w.viewport.outer_pos, Unwrap(in.hover_pos)))
                       ELSE @]
    ELSE w

window_drag_active(w, in) ==
    IF ~w.is_dragging_window THEN w
    ELSE IF in.primary_released THEN window_drag_release(w)
    ELSE window_drag_move(w, in)

handle_window_drag(w, in) == window_drag_active(window_drag_start(w, in), in)

interact_resize_zone(w, in, edge) ==
    IF in.drag_started = Some(edge)
    THEN [w EXCEPT !.is_dragging_window = FALSE,
                   !.drag_start_window_pos = None,
                   !.drag_start_global_mouse = None,
                   !.resize_drag =
                       IF IsSome(in.hover_pos)
                       THEN Some([edge |-> edge,
                                  start_window_pos |-> w.viewport.outer_pos,
                                  start_window_size |->
                                      sanitize_window_size(w.viewport.inner_size),
                                  start_global_mouse |->
                                      Plus(w.viewport.outer_pos, Unwrap(in.hover_pos))])
                       ELSE @]
    ELSE w

draw_resize_handles(w, in) ==
    interact_resize_zone(
        interact_resize_zone(
            interact_resize_zone(
                interact_resize_zone(
                    interact_resize_zone(w, in, "BottomLeft"),
                    in, "BottomRight"),
                in, "Left"),
            in, "Right"),
        in, "Bottom")

\* max_size of apply_resize_delta
resize_max_size(monitor_size) ==
    IF IsSome(monitor_size)
    THEN vec2(Max(Unwrap(monitor_size).x - RESIZE_MARGIN, MIN_WINDOW_WIDTH),
              Max(Unwrap(monitor_size).y - RESIZE_MARGIN, MIN_WINDOW_HEIGHT))
    ELSE vec2(RESIZE_LIMIT_NO_MONITOR, RESIZE_LIMIT_NO_MONITOR)

clamp_width(w, max_size) == Clamp(w, MIN_WINDOW_WIDTH, max_size.x)
clamp_height(h, max_size) == Clamp(h, MIN_WINDOW_HEIGHT, max_size.y)

\* the left edge moved: the right edge stays where it was
resize_from_left(state, new_width, height) ==
    [pos |-> Pos2(state.start_window_pos.x + (state.start_window_size.x - new_width),
                  state.start_window_pos.y),
     size |-> vec2(new_width, height)]

\* the match on state.edge
resize_by_edge(state, delta, max_size) ==
    CASE state.edge = "Left" ->
             resize_from_left(state, clamp_width(state.start_window_size.x - delta.x, max_size),
                              state.start_window_size.y)
      [] state.edge = "Right" ->
             [pos |-> state.start_window_pos,
              size |-> vec2(clamp_width(state.start_window_size.x + delta.x, max_size),
                            state.start_window_size.y)]
      [] state.edge = "Bottom" ->
             [pos |-> state.start_window_pos,
              size |-> vec2(state.start_window_size.x,
                            clamp_height(state.start_window_size.y + delta.y, max_size))]
      [] state.edge = "BottomLeft" ->
             resize_from_left(state, clamp_width(state.start_window_size.x - delta.x, max_size),
                              clamp_height(state.start_window_size.y + delta.y, max_size))
      [] state.edge = "BottomRight" ->
             [pos |-> state.start_window_pos,
              size |-> vec2(clamp_width(state.start_window_size.x + delta.x, max_size),
                            clamp_height(state.start_window_size.y + delta.y, max_size))]

\* the end of apply_resize_delta: the size sanitized, the origin clamped
resize_clamped(monitor_size, pos, size) ==
    [pos |-> IF IsSome(monitor_size)
             THEN clamp_window_origin(pos, size, Unwrap(monitor_size))
             ELSE pos,
     size |-> size]

resize_sanitized(monitor_size, r) ==
    resize_clamped(monitor_size, r.pos, sanitize_window_size(r.size))

apply_resize_delta(monitor_size, state, delta) ==
    resize_sanitized(monitor_size, resize_by_edge(state, delta, resize_max_size(monitor_size)))

resize_step(w, r) == send_inner_size(send_outer_position(w, r.pos), r.size)

\* saved_pos of the release branch of update_resize_drag
resize_release_pos(w, saved_size) ==
    IF IsSome(w.viewport.monitor_size)
    THEN clamp_window_origin(w.viewport.outer_pos, sanitize_window_size(saved_size),
                             Unwrap(w.viewport.monitor_size))
    ELSE w.viewport.outer_pos

resize_release(w) ==
    save_window_geometry(w, resize_release_pos(w, w.viewport.inner_size),
                         w.viewport.inner_size)

update_resize_drag(w, in) ==
    IF ~IsSome(w.resize_drag) THEN w
    ELSE IF in.primary_released THEN resize_release([w EXCEPT !.resize_drag = None])
    ELSE IF ~IsSome(in.hover_pos) THEN w
    ELSE resize_step(
             w, apply_resize_delta(
                    w.viewport.monitor_size, Unwrap(w.resize_drag),
                    Minus(Plus(w.viewport.outer_pos, Unwrap(in.hover_pos)),
                          Unwrap(w.resize_drag).start_global_mouse)))

\* the window steps of draw_main_panel, in its order
draw_main_panel_window(w, in) ==
    update_resize_drag(
        draw_resize_handles(handle_window_drag(ensure_window_visible(w), in), in), in)

update_window_visible(w, in) ==
    IF ~w.is_visible THEN w ELSE draw_main_panel_window(w, in)

\* MyApp::update, one frame, as far as the window goes
update_window(w, in) ==
    update_window_visible(
        handle_runtime_events([w EXCEPT !.frame = [NoFrame EXCEPT !.op = in.op]], in.events),
        in)

\* the window once the platform has carried out the commands of the frame
viewport_after(w) ==
    [w.viewport EXCEPT
        !.outer_pos = IF IsSome(w.frame.position) THEN Unwrap(w.frame.position) ELSE @,
        !.inner_size = IF IsSome(w.frame.size) THEN Unwrap(w.frame.size) ELSE @]

\* MyApp::new: the saved position and the sanitized saved size are sent to the
\* platform; main.rs opens the window with the default size when none is saved
StartViewport(cfg, placed_at, monitor_size) ==
    [outer_pos |-> IF IsSome(cfg.last_pos) THEN Unwrap(cfg.last_pos) ELSE placed_at,
     inner_size |-> IF IsSome(cfg.last_size) THEN sanitize_window_size(Unwrap(cfg.last_size))
                    ELSE vec2(WINDOW_WIDTH, WINDOW_HEIGHT),
     monitor_size |-> monitor_size]

\* where the platform puts a window that has no saved position
PlacedAt == Pos2(100, 100)

LargeMonitor == vec2(1280, 720)
SmallMonitor == vec2(1024, 600)

DefaultViewport == StartViewport(DefaultConfig, PlacedAt, Some(LargeMonitor))

-----------------------------------------------------------------------------
(* The environment: files, pointer positions, frames                       *)

\* "<letter>.exe", letter i of the alphabet, in lower or upper case
ExePath(i) == <<96 + i, 46, 101, 120, 101>>
ExePathUpper(i) == <<64 + i, 46, 69, 88, 69>>
\* "t.txt"
TxtPath == <<116, 46, 116, 120, 116>>

PlainFile(path) == [path |-> path, exists |-> TRUE, is_dir |-> FALSE, shortcut |-> None]

\* the pin of "<letter>.exe", as MyApp::new rebuilds it from the configuration
ExePin(i) == PinnedApp(ExePath(i), None, None)

SmallDesktop ==
    {PlainFile(ExePath(1)), PlainFile(ExePathUpper(1)), PlainFile(ExePath(2)),
     PlainFile(TxtPath)}

\* the batches of files one drop can carry
RECURSIVE Batches(_, _)
Batches(files, n) ==
    IF n = 0 THEN {<<>>}
    ELSE LET shorter == Batches(files, n - 1)
         IN  shorter \cup {Append(b, f) : b \in {c \in shorter : Len(c) = n - 1},
                                          f \in files}

DropBatches == Batches(desktop, MaxDropped) \ {<<>>}

\* where the row of index idx is drawn, as the top-left corner of its rect

grid_row_rect(at) ==
    IF ~IsSome(at) THEN None
    ELSE Some(Pos2(IF Unwrap(at)[1] = 0 THEN column_left_x ELSE column_right_x,
                   GridRowTop(Unwrap(at)[2])))

grid_row_slot(idx, left_indices, right_indices, dragging_idx) ==
    find_column_slot(
        idx, column_draw(left_indices, dragging_idx),
        IF column_draw(left_indices, dragging_idx) # left_indices THEN right_indices
        ELSE column_draw(right_indices, dragging_idx))

grid_row_rect_split(s, idx, split) ==
    grid_row_rect(grid_row_slot(idx, split[1], split[2], grid_dragging_idx(s)))

list_row_rect(s, pos) ==
    IF ~IsSome(pos) THEN None
    ELSE Some(Pos2(column_left_x, At(list_rects(s), Unwrap(pos))))

row_rect(s, idx) ==
    IF s.config.two_column_mode
    THEN grid_row_rect_split(
             s, idx, resolve_two_column_indices(s.pinned_apps, s.config.two_column_layout))
    ELSE list_row_rect(s, Position(list_rows(s), idx))

\* the pointer inside the row of index idx
row_centre(r) ==
    IF IsSome(r) THEN Some(Pos2(Unwrap(r).x + 10, CenterY(Unwrap(r).y))) ELSE None

PressPoint(s, idx) == row_centre(row_rect(s, idx))

\* pointer positions: at or just above the centre of a row; the column matters
\* only in two-column mode
PointerPositions(s) ==
    {Some(Pos2(x, CenterY(top) - d)) :
        x \in IF s.config.two_column_mode
              THEN {column_left_x + 10, column_right_x + 10} ELSE {column_left_x + 10},
        top \in {IF s.config.two_column_mode THEN GridRowTop(v) ELSE ListRowTop(v) :
                    v \in 0 .. Min(Max(Len(s.pinned_apps), 1) - 1, MaxPointerRow)},
        d \in {0, PointerNudge}}
    \cup {None}

\* the pointer is read only while a button is held or a gesture is in progress
Pointers(s) ==
    IF IsSome(button) \/ IsSome(s.dragging_app) \/ IsSome(s.press_candidate)
    THEN PointerPositions(s) ELSE {None}

\* time is read only while a timer runs
Dts(s) == IF IsSome(s.press_candidate) \/ IsSome(s.drop_anim) THEN FrameDts ELSE {100}

Input(op, dt, pointer) ==
    [op |-> op, dt |-> dt, events |-> <<>>, dropped_files |-> <<>>, toggle |-> FALSE,
     pointer |-> pointer, down_on |-> button, primary_down |-> IsSome(button),
     primary_released |-> FALSE, clicked |-> None, remove |-> None]

\* Pos2::distance(a, b), rounded down
Distance(a, b) ==
    IF a.x = b.x THEN Max(a.y - b.y, b.y - a.y)
    ELSE IF a.y = b.y THEN Max(a.x - b.x, b.x - a.x)
    ELSE CHOOSE r \in 0 .. 2 * WINDOW_WIDTH :
             /\ r * r <= (a.x - b.x) * (a.x - b.x) + (a.y - b.y) * (a.y - b.y)
             /\ (r + 1) * (r + 1) > (a.x - b.x) * (a.x - b.x) + (a.y - b.y) * (a.y - b.y)

\* the hold that a frame continues: pc is the press candidate the frame started
\* with, h what was observed of it so far
HoldContinued(pc, h, in) ==
    [ms    |-> Min(pc.elapsed + in.dt, ElapsedCap),
     moved |-> IF IsSome(in.pointer)
               THEN Min(h.moved + Distance(h.last, Unwrap(in.pointer)), MovedCap)
               ELSE h.moved,
     far   |-> /\ IsSome(in.pointer)
               /\ DistanceExceeds(Unwrap(in.pointer), pc.start_pos, REORDER_MOVE_TOLERANCE),
     last  |-> IF IsSome(in.pointer) THEN Unwrap(in.pointer) ELSE h.last]

\* what a frame observed of the press candidate it started with or created
HoldObserved(in, s) ==
    IF IsSome(press_candidate) THEN Some(HoldContinued(Unwrap(press_candidate), Unwrap(hold), in))
    ELSE IF IsSome(s.press_candidate)
    THEN Some([ms |-> 0, moved |-> 0, far |-> FALSE,
               last |-> Unwrap(s.press_candidate).start_pos])
    ELSE None

\* one call of MyApp::update
FrameStep(in, button_after) ==
    /\ ~crashed
    /\ frames_left > 0
    /\ \E s \in {update(St, in)} :
           /\ pinned_apps' = s.pinned_apps
           /\ config' = s.config
           /\ is_visible' = s.is_visible
           /\ dragging_app' = s.dragging_app
           /\ drag_target' = s.drag_target
           /\ grid_drag_target' = s.grid_drag_target
           /\ selected_app' = s.selected_app
           /\ press_candidate' = s.press_candidate
           /\ drop_anim' = s.drop_anim
           /\ crashed' = s.crashed
           /\ frame' = s.frame
           /\ detached' =
                  IF ~IsSome(s.drop_anim) THEN None
                  ELSE IF IsSome(drop_anim) /\ ~s.frame.committed
                  THEN Some([Unwrap(detached) EXCEPT !.removed = @ \/ s.frame.removed])
                  ELSE Some([len_before |-> Len(pinned_apps), removed |-> s.frame.removed])
           /\ hold' = HoldObserved(in, s)
    /\ button' = button_after
    /\ frames_left' = frames_left - 1
    /\ UNCHANGED <<desktop, call, is_dragging_window, drag_start_window_pos,
                   drag_start_global_mouse, resize_drag, viewport>>

\* one call of MyApp::update with the events of the frame given by the input
Frame(in, button_after) == FrameStep(in, button_after) /\ UNCHANGED runtime

\* a frame with no new input: time passes, the pointer may have moved
FrameIdle ==
    \E dt \in Dts(St), p \in Pointers(St) :
        Frame(Input("idle", dt, p), button)

\* the primary button goes down on a row
FramePress ==
    \E dt \in Dts(St), idx \in 0 .. MaxPointerRow :
        /\ is_visible
        /\ ~IsSome(button)
        /\ IsSome(PressPoint(St, idx))
        /\ Frame([Input("press", dt, PressPoint(St, idx)) EXCEPT
                     !.down_on = Some(idx), !.primary_down = TRUE],
                 Some(idx))

\* the primary button goes up; egui may report a click on the row it went down on
FrameRelease ==
    \E dt \in Dts(St), p \in Pointers(St), clicked \in {None, button} :
        /\ IsSome(button)
        /\ Frame([Input("release", dt, p) EXCEPT
                     !.down_on = None, !.primary_down = FALSE,
                     !.primary_released = TRUE, !.clicked = clicked],
                 None)

\* files are dropped on the window
FrameDropFiles ==
    \E dt \in Dts(St), files \in DropBatches :
        /\ is_visible
        /\ Frame([Input("drop_files", dt, None) EXCEPT !.dropped_files = files], button)

\* the Two-column mode checkbox of the context menu is changed
FrameToggleMode ==
    \E dt \in Dts(St) :
        /\ is_visible
        /\ Frame([Input("toggle_mode", dt, None) EXCEPT !.toggle = TRUE], button)

\* Remove is chosen in the context menu of a row
FrameRemove ==
    \E dt \in Dts(St), idx \in 0 .. MaxPointerRow :
        /\ is_visible
        /\ IsSome(row_rect(St, idx))
        /\ Frame([Input("remove", dt, None) EXCEPT !.remove = Some(idx)], button)

\* a Show or a Hide event is in the queue
FrameShow ==
    \E dt \in Dts(St) :
        Frame([Input("show", dt, None) EXCEPT !.events = <<UserEvent("Show")>>], button)

FrameHide ==
    \E dt \in Dts(St) :
        Frame([Input("hide", dt, None) EXCEPT !.events = <<UserEvent("Hide")>>], button)

NoCall == [fn |-> "none"]

\* the pins a saved configuration can hold: migrate_config_paths keeps one entry
\* per path key
InitialPins == {<<>>, <<ExePin(1), ExePin(2)>>}

LoadedConfig(apps) ==
    [DefaultConfig EXCEPT !.pinned_apps = [i \in 1 .. Len(apps) |-> apps[i].path]]

Init ==
    /\ \E apps \in InitialPins : NewApp(LoadedConfig(apps), apps)
    /\ desktop = SmallDesktop
    /\ viewport = DefaultViewport
    /\ frames_left = FrameBudget
    /\ call = NoCall

Next ==
    \/ FrameIdle
    \/ FramePress
    \/ FrameRelease
    \/ FrameDropFiles
    \/ FrameToggleMode
    \/ FrameRemove
    \/ FrameShow
    \/ FrameHide

Spec == Init /\ [][Next]_vars

-----------------------------------------------------------------------------
(* The dock started with MAX_PINNED_APPS saved pins                        *)

FullPins == [i \in 1 .. MAX_PINNED_APPS |-> ExePin(i)]

InitFull ==
    /\ NewApp(LoadedConfig(FullPins), FullPins)
    /\ desktop = {PlainFile(ExePath(MAX_PINNED_APPS + 1))}
    /\ viewport = DefaultViewport
    /\ frames_left = FullBudget
    /\ call = NoCall

NextFull ==
    \/ FrameIdle
    \/ FramePress
    \/ FrameRelease
    \/ FrameDropFiles

SpecFull == InitFull /\ [][NextFull]_vars

-----------------------------------------------------------------------------
(* The dock started in two-column mode from a saved configuration          *)

\* the docks a configuration saved in two-column mode holds
TwoColumnDocks == {<<ExePin(1), ExePin(2)>>, <<ExePin(1), ExePin(2), ExePin(3)>>}

\* the configuration that sync_config_pins and the layout sync saved
SavedTwoColumns(apps, layout) ==
    [LoadedConfig(apps) EXCEPT !.two_column_mode = TRUE, !.two_column_layout = layout]

InitTwoColumns ==
    /\ \E apps \in TwoColumnDocks :
       \E k \in 0 .. Len(apps) :
           NewApp(SavedTwoColumns(apps, Some(two_column_layout_from_split(apps, k))), apps)
    /\ desktop = SmallDesktop
    /\ viewport = DefaultViewport
    /\ frames_left = GridBudget
    /\ call = NoCall

NextTwoColumns ==
    \/ FrameIdle
    \/ FramePress
    \/ FrameRelease
    \/ FrameRemove

SpecTwoColumns == InitTwoColumns /\ [][NextTwoColumns]_vars

-----------------------------------------------------------------------------
(* The dock with its icon worker                                           *)

\* the UI thread is between two frames while a background thread takes a step
UiIdle ==
    UNCHANGED <<pinned_apps, config, is_visible, dragging_app, drag_target,
                grid_drag_target, selected_app, press_candidate, drop_anim, crashed,
                button, desktop, frame, frames_left, detached, call, hold,
                is_dragging_window, drag_start_window_pos, drag_start_global_mouse,
                resize_drag, viewport>>

\* one call of MyApp::update next to the background threads: handle_runtime_events
\* drains rx with try_recv until it is empty, the rows drawn send their IconRequest
RuntimeFrame(in, button_after) ==
    /\ FrameStep([in EXCEPT !.events = runtime.rx], button_after)
    /\ runtime' = [runtime EXCEPT !.rx = <<>>,
                                  !.icon_req_rx = @ \o frame'.icon_requests]

\* extract_icon_with_cache returns Some(image) or None
IconImages == BOOLEAN

\* one iteration of the loop of spawn_icon_worker: a request is received, the icon is
\* extracted, the result is sent on the UI channel
icon_worker(rt, image) ==
    [rt EXCEPT !.icon_req_rx = Tail(@),
               !.rx = Append(@, IconReady([path |-> Head(rt.icon_req_rx), image |-> image]))]

IconWorker ==
    \E image \in IconImages :
        /\ runtime.icon_req_rx # <<>>
        /\ runtime' = icon_worker(runtime, image)
        /\ UiIdle

IconFrameIdle ==
    \E dt \in Dts(St), p \in Pointers(St) :
        RuntimeFrame(Input("idle", dt, p), button)

IconFramePress ==
    \E dt \in Dts(St), idx \in 0 .. MaxPointerRow :
        /\ ~IsSome(button)
        /\ IsSome(PressPoint(St, idx))
        /\ RuntimeFrame([Input("press", dt, PressPoint(St, idx)) EXCEPT
                            !.down_on = Some(idx), !.primary_down = TRUE],
                        Some(idx))

IconFrameRelease ==
    \E dt \in Dts(St), p \in Pointers(St) :
        /\ IsSome(button)
        /\ RuntimeFrame([Input("release", dt, p) EXCEPT
                            !.down_on = None, !.primary_down = FALSE,
                            !.primary_released = TRUE],
                        None)

IconFrameRemove ==
    \E dt \in Dts(St), idx \in 0 .. MaxPointerRow :
        /\ ~IsSome(button)
        /\ IsSome(row_rect(St, idx))
        /\ RuntimeFrame([Input("remove", dt, None) EXCEPT !.remove = Some(idx)], button)

InitIcons ==
    /\ NewApp(LoadedConfig(<<ExePin(1), ExePin(2)>>), <<ExePin(1), ExePin(2)>>)
    /\ desktop = {}
    /\ viewport = DefaultViewport
    /\ frames_left = IconBudget
    /\ call = NoCall

NextIcons ==
    \/ IconFrameIdle
    \/ IconFramePress
    \/ IconFrameRelease
    \/ IconFrameRemove
    \/ IconWorker

SpecIcons == InitIcons /\ [][NextIcons]_vars

-----------------------------------------------------------------------------
(* The window's visibility: hotkey threads, event loop, UI thread          *)

\* apply_runtime_action with *is_visible = false left out of the Hide arm
apply_runtime_action_mut_hide_keeps_flag(rt, action) ==
    IF action = "Show" \/ (action = "Toggle" /\ ~rt.is_visible)
    THEN [rt EXCEPT !.is_visible = TRUE, !.rx = Append(@, UserEvent("Show"))]
    ELSE IF rt.is_visible THEN [rt EXCEPT !.rx = Append(@, UserEvent("Hide"))]
    ELSE rt

\* RuntimeAction::Show, Hide and Toggle; Quit ends the process
RECURSIVE apply_runtime_action(_, _)
apply_runtime_action(rt, action) ==
    IF action = "Show"
    THEN [rt EXCEPT !.is_visible = TRUE, !.rx = Append(@, UserEvent("Show"))]
    ELSE IF action = "Hide"
    THEN IF rt.is_visible
         THEN [rt EXCEPT !.is_visible = FALSE, !.rx = Append(@, UserEvent("Hide"))]
         ELSE rt
    ELSE IF rt.is_visible THEN apply_runtime_action(rt, "Hide")
    ELSE apply_runtime_action(rt, "Show")

\* the actions of HOTKEY_BINDINGS that do not end the process
HotkeyActions == {"Show", "Hide"}

\* spawn_native_hotkey_worker: a WM_HOTKEY message arrives and its action is sent
NativeHotkey ==
    \E action \in HotkeyActions :
        /\ Len(runtime.action_rx) < MaxActions
        /\ runtime' = [runtime EXCEPT !.action_rx = Append(@, action)]
        /\ UiIdle

\* one iteration of the loop of spawn_hotkey_polling_fallback: a chord that is down
\* now and was not down 20 ms ago sends its action
hotkey_polling(rt, show_down, hide_down) ==
    [rt EXCEPT !.action_rx = @ \o (IF show_down /\ ~rt.prev_show THEN <<"Show">> ELSE <<>>)
                               \o (IF hide_down /\ ~rt.prev_hide THEN <<"Hide">> ELSE <<>>),
               !.prev_show = show_down,
               !.prev_hide = hide_down]

PollHotkeys ==
    \E show_down \in BOOLEAN, hide_down \in BOOLEAN :
        /\ Len(hotkey_polling(runtime, show_down, hide_down).action_rx) <= MaxActions
        /\ runtime' = hotkey_polling(runtime, show_down, hide_down)
        /\ UiIdle

\* spawn_runtime_event_loop, `while let Ok(action) = action_rx.try_recv()`: one action
\* is received and applied
LoopAction ==
    /\ runtime.action_rx # <<>>
    /\ Len(runtime.rx) < MaxEvents
    /\ runtime' = apply_runtime_action([runtime EXCEPT !.action_rx = Tail(@)],
                                       Head(runtime.action_rx))
    /\ UiIdle

\* spawn_runtime_event_loop, the menu's toggle item or a left click on the tray icon:
\* Toggle is applied
LoopToggle ==
    /\ Len(runtime.rx) < MaxEvents
    /\ runtime' = apply_runtime_action(runtime, "Toggle")
    /\ UiIdle

\* a frame of the UI thread; it is drawn or not, the events are drained
VisibilityFrame ==
    \E dt \in Dts(St) : RuntimeFrame(Input("idle", dt, None), button)

InitVisibility ==
    /\ NewApp(DefaultConfig, <<>>)
    /\ desktop = {}
    /\ viewport = DefaultViewport
    /\ frames_left = VisibilityBudget
    /\ call = NoCall

NextVisibility ==
    \/ NativeHotkey
    \/ PollHotkeys
    \/ LoopAction
    \/ LoopToggle
    \/ VisibilityFrame

SpecVisibility == InitVisibility /\ [][NextVisibility]_vars

-----------------------------------------------------------------------------
(* Direct calls of the layout functions                                    *)

\* the application is idle while a function is called directly
AppIdle ==
    UNCHANGED <<pinned_apps, config, is_visible, dragging_app, drag_target,
                grid_drag_target, selected_app, press_candidate, drop_anim, crashed,
                button, desktop, frame, frames_left, detached, hold, is_dragging_window,
                drag_start_window_pos, drag_start_global_mouse, resize_drag, viewport,
                runtime>>

InitIdle ==
    /\ NewApp(DefaultConfig, <<>>)
    /\ desktop = {}
    /\ viewport = DefaultViewport
    /\ frames_left = 0

SeqsUpTo(S, n) == UNION {[1 .. k -> S] : k \in 0 .. n}

\* reorder_pinned_apps_by_columns over any two index lists, valid or not
InitReorder ==
    /\ InitIdle
    /\ \E n \in 0 .. MaxApps, order \in SeqsUpTo(0 .. MaxApps, MaxApps + 1) :
       \E k \in 0 .. Len(order) :
           call = [fn |-> "reorder",
                   apps |-> [i \in 1 .. n |-> ExePin(i)],
                   left |-> SubSeq(order, 1, k),
                   right |-> SubSeq(order, k + 1, Len(order)),
                   done |-> FALSE,
                   result |-> <<>>]

CallReorder ==
    /\ call.fn = "reorder"
    /\ ~call.done
    /\ call' = [call EXCEPT
                   !.done = TRUE,
                   !.result = reorder_pinned_apps_by_columns(call.apps, call.left,
                                                             call.right)]
    /\ AppIdle

NextReorder == CallReorder

SpecReorder == InitReorder /\ [][NextReorder]_vars

\* collections: "a.exe", "A.EXE" (the same key), "b.exe", repeats included
CallPins == {ExePin(1), PinnedApp(ExePathUpper(1), None, None), ExePin(2)}

\* layout entries: the key two pins share, the key of one pin, and a key that no
\* pin has ("z.exe")
CallEntries ==
    {TwoColumnEntry(ExePath(i), None, None) : i \in {1, 2, 26}}

CallLayouts ==
    {None} \cup
    {Some([left |-> SubSeq(entries, 1, k), right |-> SubSeq(entries, k + 1, Len(entries))]) :
        <<entries, k>> \in {<<e, j>> \in SeqsUpTo(CallEntries, MaxLayoutLen)
                                            \X (0 .. MaxLayoutLen) : j <= Len(e)}}

\* the pipeline of set_two_column_mode, one function at a time: resolve, reorder,
\* derive the layout, resolve again; `direct` skips the reorder
InitReconcile ==
    /\ InitIdle
    /\ \E apps \in SeqsUpTo(CallPins, MaxApps), layout \in CallLayouts :
           call = [fn |-> "reconcile", apps |-> apps, layout |-> layout, stage |-> 0,
                   split |-> <<>>, reordered |-> <<>>, relayout |-> <<>>,
                   direct |-> <<>>, again |-> <<>>, again_direct |-> <<>>]

CallResolve ==
    /\ call.fn = "reconcile" /\ call.stage = 0
    /\ call' = [call EXCEPT
                   !.stage = 1,
                   !.split = resolve_two_column_indices(call.apps, call.layout)]
    /\ AppIdle

CallReorderBySplit ==
    /\ call.fn = "reconcile" /\ call.stage = 1
    /\ call' = [call EXCEPT
                   !.stage = 2,
                   !.reordered = reorder_pinned_apps_by_columns(call.apps, call.split[1],
                                                                call.split[2])]
    /\ AppIdle

CallLayoutFromSplit ==
    /\ call.fn = "reconcile" /\ call.stage = 2
    /\ call' = [call EXCEPT
                   !.stage = 3,
                   !.relayout = two_column_layout_from_split(call.reordered,
                                                             Len(call.split[1])),
                   !.direct = two_column_layout_from_split(call.apps, Len(call.split[1]))]
    /\ AppIdle

CallResolveAgain ==
    /\ call.fn = "reconcile" /\ call.stage = 3
    /\ call' = [call EXCEPT
                   !.stage = 4,
                   !.again = resolve_two_column_indices(call.reordered, Some(call.relayout)),
                   !.again_direct = resolve_two_column_indices(call.apps, Some(call.direct))]
    /\ AppIdle

NextReconcile ==
    \/ CallResolve
    \/ CallReorderBySplit
    \/ CallLayoutFromSplit
    \/ CallResolveAgain

SpecReconcile == InitReconcile /\ [][NextReconcile]_vars

\* "s.lnk"
LnkPath == <<115, 46, 108, 110, 107>>
\* " -x " and "-x"
ArgsPadded == <<32, 45, 120, 32>>
ArgsTrimmed == <<45, 120>>

\* a shortcut file and what resolve_shortcut gives for it
Shortcut(target) ==
    [path |-> LnkPath, exists |-> TRUE, is_dir |-> FALSE, shortcut |-> target]

ShortcutTarget(path, arguments, target_exists) ==
    Some([target_path |-> path, arguments |-> arguments, working_dir |-> None,
          target_exists |-> target_exists])

\* the files an add-pin attempt can name: programs (one differing in case only),
\* a 21st program, a text file, a file that is gone, a folder, and shortcuts:
\* to a pinned program, to it with arguments, to a missing target, unresolvable
AddFiles ==
    {PlainFile(ExePath(1)), PlainFile(ExePathUpper(1)), PlainFile(ExePath(2)),
     PlainFile(ExePath(MAX_PINNED_APPS + 1)), PlainFile(TxtPath),
     [PlainFile(ExePath(1)) EXCEPT !.exists = FALSE],
     [PlainFile(<<100>>) EXCEPT !.is_dir = TRUE],
     Shortcut(ShortcutTarget(ExePath(1), None, TRUE)),
     Shortcut(ShortcutTarget(ExePath(1), Some(ArgsPadded), TRUE)),
     Shortcut(ShortcutTarget(ExePath(1), None, FALSE)),
     Shortcut(None)}

\* the pins a collection can hold: programs, a program pinned through a shortcut
\* with arguments, and a text file that a saved configuration listed
AddPins ==
    {ExePin(1), PinnedApp(ExePathUpper(1), None, None), ExePin(2),
     PinnedApp(ExePath(1), Some(ArgsTrimmed), None), PinnedApp(TxtPath, None, None)}

\* collections without two entries of one key, and the full dock
AddCollections ==
    {apps \in SeqsUpTo(AddPins, MaxAddApps) :
        \A i, j \in 1 .. Len(apps) : i # j => AppKey(apps[i]) # AppKey(apps[j])}
    \cup {FullPins}

InitAdd ==
    /\ InitIdle
    /\ \E apps \in AddCollections, file \in AddFiles :
           call = [fn |-> "add", apps |-> apps, file |-> file, done |-> FALSE,
                   result |-> "", after |-> <<>>]

\* try_add_pin on a dock that holds call.apps
CallTryAddPin ==
    /\ call.fn = "add"
    /\ ~call.done
    /\ \E r \in {try_add_pin([St EXCEPT !.pinned_apps = call.apps], call.file)} :
           call' = [call EXCEPT !.done = TRUE, !.result = r.result,
                                !.after = r.s.pinned_apps]
    /\ AppIdle

NextAdd == CallTryAddPin

SpecAdd == InitAdd /\ [][NextAdd]_vars

-----------------------------------------------------------------------------
(* The window moved and resized with the pointer                           *)

RESIZE_EDGE_THICKNESS == 6
RESIZE_CORNER_SIZE == 14

\* a point of the header, or of the zone of an edge, in window coordinates
GrabPoint(target, size) ==
    CASE target = "Header" -> Pos2(size.x \div 2, HEADER_HEIGHT \div 2)
      [] target = "Left" -> Pos2(RESIZE_EDGE_THICKNESS \div 2, size.y \div 2)
      [] target = "Right" -> Pos2(size.x - RESIZE_EDGE_THICKNESS \div 2, size.y \div 2)
      [] target = "Bottom" -> Pos2(size.x \div 2, size.y - RESIZE_EDGE_THICKNESS \div 2)
      [] target = "BottomLeft" ->
             Pos2(RESIZE_CORNER_SIZE \div 2, size.y - RESIZE_CORNER_SIZE \div 2)
      [] target = "BottomRight" ->
             Pos2(size.x - RESIZE_CORNER_SIZE \div 2, size.y - RESIZE_CORNER_SIZE \div 2)

\* how far the pointer is from where the gesture started
PointerDeltas ==
    {vec2(0, 0), vec2(NearDelta, 0), vec2(-NearDelta, NearDelta),
     vec2(FarDelta, FarDelta), vec2(-FarDelta, -FarDelta)}

\* the global pointer positions the running gestures started at
Anchors ==
    (IF IsSome(drag_start_global_mouse) THEN {Unwrap(drag_start_global_mouse)} ELSE {})
    \cup (IF IsSome(resize_drag) THEN {Unwrap(resize_drag).start_global_mouse} ELSE {})

\* pointer.hover_pos(): none when the pointer is outside the window
HoverPositions ==
    {None} \cup {Some(Minus(Plus(a, d), viewport.outer_pos)) : a \in Anchors, d \in PointerDeltas}

WindowInput(op, hover_pos) ==
    [op |-> op, events |-> <<>>, hover_pos |-> hover_pos, drag_started |-> None,
     primary_released |-> FALSE]

WindowFrame(in, button_after) ==
    /\ frames_left > 0
    /\ \E w \in {update_window(Win, in)} :
           /\ config' = w.config
           /\ is_visible' = w.is_visible
           /\ is_dragging_window' = w.is_dragging_window
           /\ drag_start_window_pos' = w.drag_start_window_pos
           /\ drag_start_global_mouse' = w.drag_start_global_mouse
           /\ resize_drag' = w.resize_drag
           /\ frame' = w.frame
           /\ viewport' = viewport_after(w)
    /\ button' = button_after
    /\ frames_left' = frames_left - 1
    /\ UNCHANGED <<pinned_apps, dragging_app, drag_target, grid_drag_target, selected_app,
                   press_candidate, drop_anim, crashed, desktop, detached, call, hold,
                   runtime>>

\* a frame with no button event: the pointer may have moved
WindowFrameIdle ==
    \E hover_pos \in HoverPositions :
        WindowFrame(WindowInput("idle", hover_pos), button)

\* the primary button went down on the header or on a resize zone and the drag began
WindowFrameDragStart ==
    \E target \in {"Header"} \cup ResizeEdges :
        \E hover_pos \in {None, Some(GrabPoint(target, viewport.inner_size))} :
            /\ is_visible
            /\ ~IsSome(button)
            /\ WindowFrame([WindowInput("drag_start", hover_pos) EXCEPT
                               !.drag_started = Some(target)],
                           Some(target))

\* the primary button goes up, seen by the frame or not
WindowFrameRelease ==
    \E hover_pos \in HoverPositions :
        /\ IsSome(button)
        /\ WindowFrame([WindowInput("release", hover_pos) EXCEPT !.primary_released = TRUE],
                       None)

\* a Show or a Hide event is in the queue
WindowFrameShow ==
    \E events \in {<<UserEvent("Show")>>} :
        WindowFrame([WindowInput("show", None) EXCEPT !.events = events], button)

WindowFrameHide ==
    \E events \in {<<UserEvent("Hide")>>} :
        WindowFrame([WindowInput("hide", None) EXCEPT !.events = events], button)

\* the geometry a configuration file can hold: none, the default size near the right
\* edge of the large monitor, a window almost as wide as the large monitor
SavedGeometries ==
    {[last_pos |-> None, last_size |-> None],
     [last_pos |-> Some(Pos2(900, 100)), last_size |-> Some(vec2(WINDOW_WIDTH, WINDOW_HEIGHT))],
     [last_pos |-> Some(Pos2(20, 50)), last_size |-> Some(vec2(1250, WINDOW_HEIGHT))]}

Monitors == {None, Some(LargeMonitor), Some(SmallMonitor)}

WindowConfig(g) == [DefaultConfig EXCEPT !.last_pos = g.last_pos, !.last_size = g.last_size]

InitWindow ==
    /\ \E g \in SavedGeometries, monitor_size \in Monitors :
           /\ NewApp(WindowConfig(g), <<>>)
           /\ viewport = StartViewport(WindowConfig(g), PlacedAt, monitor_size)
    /\ desktop = {}
    /\ frames_left = WindowBudget
    /\ call = NoCall

NextWindow ==
    \/ WindowFrameIdle
    \/ WindowFrameDragStart
    \/ WindowFrameRelease
    \/ WindowFrameShow
    \/ WindowFrameHide

SpecWindow == InitWindow /\ [][NextWindow]_vars

-----------------------------------------------------------------------------
(* The release of a two-column drag, called on a dock in two-column mode   *)

\* docks of up to MaxGridApps entries with distinct keys
GridDocks ==
    {apps \in SeqsUpTo({ExePin(i) : i \in 1 .. MaxGridApps}, MaxGridApps) :
        /\ apps # <<>>
        /\ \A j, k \in 1 .. Len(apps) : j # k => apps[j] # apps[k]}

\* the layout the dock saved for a split point, and no layout (alternating split)
GridLayouts(apps) ==
    {None} \cup {Some(two_column_layout_from_split(apps, k)) : k \in 0 .. Len(apps)}

\* grid_drag_target: none, or a column and a slot (up to one past the longest column)
GridTargets == {None} \cup {Some(<<col, slot>>) : col \in {0, 1}, slot \in 0 .. MaxGridApps}

\* the dock in two-column mode with a drag in progress
GridDragState(c) ==
    [St EXCEPT !.pinned_apps = c.apps,
               !.config = [DefaultConfig EXCEPT
                              !.pinned_apps = [k \in 1 .. Len(c.apps) |-> c.apps[k].path],
                              !.two_column_mode = TRUE,
                              !.two_column_layout = c.layout],
               !.dragging_app = Some(c.dragging_app),
               !.grid_drag_target = c.grid_drag_target,
               !.selected_app = c.selected_app,
               !.frame = [NoFrame EXCEPT !.op = "release"]]

\* the frame of the release: the button went up, the pointer is outside the window
GridReleaseInput ==
    [Input("release", 100, None) EXCEPT !.primary_down = FALSE, !.primary_released = TRUE]

InitGrid ==
    /\ InitIdle
    /\ \E apps \in GridDocks :
           \E layout \in GridLayouts(apps), from_idx \in 0 .. Len(apps) - 1,
              target \in GridTargets, selected \in {None, Some(0)} :
               call = [fn |-> "grid_release", apps |-> apps, layout |-> layout,
                       dragging_app |-> from_idx, grid_drag_target |-> target,
                       selected_app |-> selected, done |-> FALSE, after |-> <<>>]

\* draw_pinned_grid in the frame of the release
CallGridRelease ==
    /\ call.fn = "grid_release"
    /\ ~call.done
    /\ \E d \in {draw_pinned_grid(GridDragState(call), GridReleaseInput)} :
           call' = [call EXCEPT !.done = TRUE, !.after = d.s]
    /\ AppIdle

NextGrid == CallGridRelease

SpecGrid == InitGrid /\ [][NextGrid]_vars

-----------------------------------------------------------------------------
(* The identity key of two launch targets                                  *)

\* "a", "A", "b"
KeyPaths == {<<97>>, <<65>>, <<98>>}
\* no arguments, "", "x", " x ", "X", "x|y"
KeyArgs == {None, Some(<<>>), Some(<<120>>), Some(<<32, 120, 32>>), Some(<<88>>), Some(<<120, 124, 121>>)}
\* no working directory, "", "d", "D", "y|d"
KeyDirs == {None, Some(<<>>), Some(<<100>>), Some(<<68>>), Some(<<121, 124, 100>>)}

LaunchTargets ==
    {[path |-> p, args |-> a, working_dir |-> w] : p \in KeyPaths, a \in KeyArgs, w \in KeyDirs}

InitKey ==
    /\ InitIdle
    /\ \E a \in LaunchTargets, b \in LaunchTargets :
           call = [fn |-> "launch_key", a |-> a, b |-> b, done |-> FALSE,
                   key_a |-> <<>>, key_b |-> <<>>]

\* normalize_launch_key on both targets
CallLaunchKey ==
    /\ call.fn = "launch_key"
    /\ ~call.done
    /\ call' = [call EXCEPT
                   !.done = TRUE,
                   !.key_a = normalize_launch_key(call.a.path, call.a.args, call.a.working_dir),
                   !.key_b = normalize_launch_key(call.b.path, call.b.args, call.b.working_dir)]
    /\ AppIdle

NextKey == CallLaunchKey

SpecKey == InitKey /\ [][NextKey]_vars

-----------------------------------------------------------------------------
(* The single-column reorder gesture from the release to the commit        *)

\* the pointer on release: outside the window, or over the list
ListPointers ==
    {None} \cup {Some(Pos2(column_left_x + 10, CenterY(ListRowTop(v)) - d)) :
                    v \in 0 .. MaxGridApps - 1, d \in {0, PointerNudge}}

\* the single-column dock with a drag in progress
ListDragState(c) ==
    [St EXCEPT !.pinned_apps = c.apps,
               !.config = [DefaultConfig EXCEPT
                              !.pinned_apps = [k \in 1 .. Len(c.apps) |-> c.apps[k].path]],
               !.dragging_app = Some(c.dragging_app),
               !.drag_target = Some(c.drag_target),
               !.selected_app = c.selected_app]

\* a program that is not pinned, dropped on the window
NewFile == PlainFile(ExePath(MaxGridApps + 1))

InitList ==
    /\ InitIdle
    /\ \E apps \in GridDocks :
           \E from_idx \in 0 .. Len(apps) - 1, target \in 0 .. MaxGridApps,
              pointer \in ListPointers, selected \in {None, Some(0)} :
               call = [fn |-> "list_gesture", apps |-> apps, dragging_app |-> from_idx,
                       drag_target |-> target, pointer |-> pointer,
                       selected_app |-> selected, phase |-> "drag", added |-> FALSE,
                       s |-> <<>>]

\* the frame in which the button goes up
CallListRelease ==
    /\ call.fn = "list_gesture"
    /\ call.phase = "drag"
    /\ \E s \in {update(ListDragState(call),
                         [Input("release", 100, call.pointer) EXCEPT
                             !.primary_down = FALSE, !.primary_released = TRUE])} :
           call' = [call EXCEPT !.s = s,
                                !.phase = IF IsSome(s.drop_anim) THEN "anim" ELSE "done"]
    /\ AppIdle

\* a frame of the drop animation with no input
CallListFrame ==
    /\ call.fn = "list_gesture"
    /\ call.phase = "anim"
    /\ \E dt \in FrameDts :
       \E s \in {update(call.s, Input("idle", dt, None))} :
           call' = [call EXCEPT !.s = s,
                                !.phase = IF IsSome(s.drop_anim) THEN "anim" ELSE "done"]
    /\ AppIdle

\* a frame of the drop animation in which a file is dropped on the window
CallListAdd ==
    /\ call.fn = "list_gesture"
    /\ call.phase = "anim"
    /\ ~call.added
    /\ \E s \in {update(call.s, [Input("drop_files", 100, None) EXCEPT
                                     !.dropped_files = <<NewFile>>])} :
           call' = [call EXCEPT !.s = s, !.added = TRUE,
                                !.phase = IF IsSome(s.drop_anim) THEN "anim" ELSE "done"]
    /\ AppIdle

NextList == CallListRelease \/ CallListFrame \/ CallListAdd

SpecList == InitList /\ [][NextList]_vars

-----------------------------------------------------------------------------
(* Claims about the pinned collection and the gestures                     *)

\* C1: an entry held by a drop animation leaves the animation only by being
\* reinserted into the collection: in every step that ends a drop animation the
\* frame committed the held entry (it is never lost)
C1_DetachedEntryReinserted ==
    [][IsSome(drop_anim) /\ ~IsSome(drop_anim') => frame'.committed]_vars

\* C2: in every reachable state the pinned collection holds at most 20 entries
C2_AtMostTwentyPins == Len(pinned_apps) <= MAX_PINNED_APPS

\* C3: in every reachable state no two entries of the pinned collection have the
\* same identity key
C3_NoDuplicateKeys ==
    \A i, j \in 1 .. Len(pinned_apps) :
        i # j => AppKey(pinned_apps[i]) # AppKey(pinned_apps[j])

\* the order is a permutation of 0 .. n-1
IsPermutation(order, n) ==
    /\ Len(order) = n
    /\ {order[k] : k \in 1 .. Len(order)} = 0 .. (n - 1)

ReorderDone == call.fn = "reorder" /\ call.done

\* C4: reorder_pinned_apps_by_columns applied to the order left ++ right returns
\* the collection indexed by the order when the order is a permutation of 0..n,
\* and the unchanged collection when it is not (wrong length, repeated index,
\* index >= n)
C4_ReorderByPermutation ==
    ReorderDone =>
        IF IsPermutation(call.left \o call.right, Len(call.apps))
        THEN /\ Len(call.result) = Len(call.apps)
             /\ \A k \in 1 .. Len(call.apps) :
                    call.result[k] = At(call.apps, (call.left \o call.right)[k])
        ELSE call.result = call.apps

\* a permutation other than the identity, with both columns in use, was applied
C4_PermutationApplied ==
    /\ ReorderDone
    /\ IsPermutation(call.left \o call.right, Len(call.apps))
    /\ call.left # <<>> /\ call.right # <<>>
    /\ call.result # call.apps

\* the pipeline has just run its first `stage` steps
Resolved(stage) == call.fn = "reconcile" /\ call.stage = stage

Occurrences(seq, x) == Cardinality({k \in 1 .. Len(seq) : seq[k] = x})

LayoutKeysOf(entries) == [k \in 1 .. Len(entries) |-> EntryKey(entries[k])]

AppKeysOf(apps) == [k \in 1 .. Len(apps) |-> AppKey(apps[k])]

Range(seq) == {seq[k] : k \in 1 .. Len(seq)}

\* C5: for every collection and every persisted layout the two index lists
\* returned by the reconciliation contain every live index exactly once, so
\* |left| + |right| = |collection|
C5_SplitCoversEveryIndexOnce ==
    Resolved(1) =>
        /\ Len(call.split[1]) + Len(call.split[2]) = Len(call.apps)
        /\ \A i \in Indices(call.apps) :
               Occurrences(call.split[1] \o call.split[2], i) = 1

\* a layout with a key in both columns and a key no pin has, against three pins
C5_AwkwardLayoutResolved ==
    /\ Resolved(1)
    /\ Len(call.apps) = MaxApps
    /\ IsSome(call.layout)
    /\ Range(LayoutKeysOf(Unwrap(call.layout).left))
           \cap Range(LayoutKeysOf(Unwrap(call.layout).right)) # {}
    /\ \E e \in Range(Unwrap(call.layout).left \o Unwrap(call.layout).right) :
           EntryKey(e) \notin Range(AppKeysOf(call.apps))

\* C6 as stated: reconciling, converting the split back to a layout with
\* layout_from_split(collection, |left|) on the collection as it is, and
\* reconciling again gives the first split
C6_SameSplitOnUnorderedCollection ==
    Resolved(4) => call.again_direct = call.split

\* C6: reconciling, reordering the collection by the split, converting the
\* reordered collection back to a layout with layout_from_split(reordered, |left|)
\* and reconciling again gives the split (0 .. |left|-1, |left| .. n-1), which puts
\* the same entries in the same order in each column as the first split did
C6_SameColumnsAfterReorder ==
    Resolved(4) =>
        /\ call.again[1] = [k \in 1 .. Len(call.split[1]) |-> k - 1]
        /\ call.again[2] = [k \in 1 .. Len(call.split[2]) |-> Len(call.split[1]) + k - 1]
        /\ \A c \in 1 .. 2 :
               [k \in 1 .. Len(call.again[c]) |-> At(call.reordered, call.again[c][k])]
                   = [k \in 1 .. Len(call.split[c]) |-> At(call.apps, call.split[c][k])]

\* a first split that interleaves the columns was reconciled again both ways
C6_InterleavedSplitReconciledAgain ==
    /\ Resolved(4)
    /\ call.split[1] # <<>> /\ call.split[2] # <<>>
    /\ call.again # call.split
    /\ call.again_direct # call.split

KeySet(entries) == Range(LayoutKeysOf(entries))

\* C7 as stated: for every collection and saved layout the layout derived from
\* the reordered collection has the saved layout's left and right key sets
C7_RoundTripKeySets ==
    Resolved(3) /\ IsSome(call.layout) =>
        /\ KeySet(call.relayout.left) = KeySet(Unwrap(call.layout).left)
        /\ KeySet(call.relayout.right) = KeySet(Unwrap(call.layout).right)

\* every key occurs as often in the saved layout as in the collection
LayoutMatchesCollection ==
    /\ IsSome(call.layout)
    /\ \A key \in Range(AppKeysOf(call.apps))
                  \cup KeySet(Unwrap(call.layout).left \o Unwrap(call.layout).right) :
           Occurrences(AppKeysOf(call.apps), key)
               = Occurrences(LayoutKeysOf(Unwrap(call.layout).left
                                          \o Unwrap(call.layout).right), key)

\* C7: when the saved layout lists exactly the keys of the collection (each as
\* often as the collection holds it), reordering by the reconciled split and
\* re-deriving the layout with split point |left| reproduces the saved layout's
\* left keys and right keys, in order
C7_RoundTripOfMatchingLayout ==
    Resolved(3) /\ LayoutMatchesCollection =>
        /\ LayoutKeysOf(call.relayout.left) = LayoutKeysOf(Unwrap(call.layout).left)
        /\ LayoutKeysOf(call.relayout.right) = LayoutKeysOf(Unwrap(call.layout).right)

\* a matching layout that moved entries of a three-entry collection
C7_MatchingLayoutReordered ==
    /\ Resolved(3)
    /\ LayoutMatchesCollection
    /\ Len(call.apps) = MaxApps
    /\ Unwrap(call.layout).right # <<>>
    /\ call.reordered # call.apps

SavedKeys == KeySet(Unwrap(call.layout).left \o Unwrap(call.layout).right)

LayoutMatchesAnEntry ==
    /\ IsSome(call.layout)
    /\ Range(AppKeysOf(call.apps)) \cap SavedKeys # {}

\* live indices whose key the layout does not list
NewIndices == {i \in Indices(call.apps) : AppKey(At(call.apps, i)) \notin SavedKeys}

\* how many live entries the layout's left list resolves: each key as often as the
\* left list names it, as far as the collection has entries of that key
ResolvedFromLeft ==
    Cardinality({<<key, j>> \in KeySet(Unwrap(call.layout).left) \X (1 .. MaxLayoutLen + 1) :
                    /\ j <= Occurrences(LayoutKeysOf(Unwrap(call.layout).left), key)
                    /\ j <= Occurrences(AppKeysOf(call.apps), key)})

\* C8: when the persisted layout matches at least one live entry, every live entry
\* whose key the layout does not list is in the left column, after the entries
\* resolved from the layout's left list, the new entries in collection order; every
\* entry of the right column has a key of the layout's right list
C8_NewEntriesAppendedLeft ==
    Resolved(1) /\ LayoutMatchesAnEntry =>
        /\ \A i \in NewIndices :
               \E p \in 1 .. Len(call.split[1]) :
                   /\ call.split[1][p] = i
                   /\ p > ResolvedFromLeft
        /\ \A p, q \in 1 .. Len(call.split[1]) :
               /\ p < q
               /\ call.split[1][p] \in NewIndices
               /\ call.split[1][q] \in NewIndices
               => call.split[1][p] < call.split[1][q]
        /\ \A p \in 1 .. Len(call.split[2]) :
               AppKey(At(call.apps, call.split[2][p])) \in KeySet(Unwrap(call.layout).right)

\* a layout that resolves a left and a right entry met a collection with a new one
C8_NewEntryBesideResolvedOnes ==
    /\ Resolved(1)
    /\ LayoutMatchesAnEntry
    /\ NewIndices # {}
    /\ ResolvedFromLeft >= 1
    /\ call.split[2] # <<>>

\* C9: a drop animation always reaches the collection: the step that ends it commits
\* the held entry at min(insert_at, current length), and when no entry was removed
\* since the release the collection is then as long as before the release
C9_DropAnimationReachesCollection ==
    [][IsSome(drop_anim) =>
          \/ IsSome(drop_anim') /\ ~frame'.committed
          \/ /\ frame'.committed
             /\ Unwrap(frame'.commit).at =
                    Min(Unwrap(drop_anim).insert_at, Len(pinned_apps))
             /\ ~Unwrap(detached).removed =>
                    Unwrap(frame'.commit).len = Unwrap(detached).len_before]_vars

\* C10: an active drag is never cancelled by another operation: it ends only in the
\* frame of the pointer release, and the program keeps running until then
C10_DragEndsOnlyByRelease ==
    [][IsSome(dragging_app) =>
          /\ ~crashed'
          /\ ~IsSome(dragging_app') => frame'.op = "release"]_vars

\* the gesture sessions that exist: press candidate, active drag, drop animation
Sessions ==
    (IF IsSome(press_candidate) THEN {"press_candidate"} ELSE {})
        \cup (IF IsSome(dragging_app) THEN {"dragging_app"} ELSE {})
        \cup (IF IsSome(drop_anim) THEN {"drop_anim"} ELSE {})

\* C11: in every reachable state at most one of press_candidate, dragging_app and
\* drop_anim is set
C11_AtMostOneSession == Cardinality(Sessions) <= 1

\* a press became a drag and the drag a drop animation, which is the one session
C11_DropAnimationAlone == Sessions = {"drop_anim"}

\* a drag becomes active in this step
DragActivated == ~IsSome(dragging_app) /\ IsSome(dragging_app')

\* C12 as stated: a drag becomes active only from a press candidate that was held
\* at least 260 ms and whose pointer travelled at most 18 px in all during the hold
C12_ActivationAfterStillHold ==
    [][DragActivated =>
          /\ IsSome(press_candidate)
          /\ Unwrap(hold').ms >= REORDER_HOLD_MS
          /\ Unwrap(hold').moved <= REORDER_MOVE_TOLERANCE]_vars

\* C12: a drag becomes active only from a press candidate that was held at least
\* 260 ms and whose pointer, in the frame that activates it, is at most 18 px from
\* the press position (a frame that sees it farther away ends the candidate)
C12_ActivationAfterHoldInTolerance ==
    [][DragActivated =>
          /\ IsSome(press_candidate)
          /\ Unwrap(hold').ms >= REORDER_HOLD_MS
          /\ ~Unwrap(hold').far]_vars

\* a drag is active after a hold during which the pointer moved and came back
C12_DragAfterMovingHold ==
    /\ IsSome(dragging_app)
    /\ IsSome(hold)
    /\ Unwrap(hold).moved > REORDER_MOVE_TOLERANCE

\* a press candidate exists, and in this frame the button is released, or the
\* window is shown and the pointer is more than 18 px from the press position
HoldBroken ==
    /\ IsSome(press_candidate)
    /\ \/ frame'.op = "release"
       \/ frame'.op = "idle" /\ is_visible' /\ Unwrap(hold').far

\* the entries of the collection, in order, by path
Paths(apps) == [k \in 1 .. Len(apps) |-> apps[k].path]

\* C13: a press candidate whose button is released, or whose pointer is seen more
\* than 18 px from the press position, is discarded: no candidate and no drag
\* remain, and the collection is as it was
C13_BrokenHoldDiscarded ==
    [][HoldBroken =>
          /\ ~IsSome(press_candidate')
          /\ ~IsSome(dragging_app')
          /\ Paths(pinned_apps') = Paths(pinned_apps)]_vars

AddDone == call.fn = "add" /\ call.done

\* the key try_add_pin computes for a file it resolves
FileKey(file) ==
    normalize_launch_key(resolved_launch(file).path, resolved_launch(file).launch_args,
                         resolved_launch(file).working_dir)

\* the file is there, and a shortcut leads to a target that is there
Resolves(file) == file.exists /\ ~shortcut_unresolved(file)

KeyPinned(apps, key) == \E k \in 1 .. Len(apps) : AppKey(apps[k]) = key

\* C14: when the collection holds 20 entries, an add-pin attempt with a key no
\* entry has returns LimitReached and leaves the collection as it was
C14_FullDockRejectsNewKey ==
    AddDone /\ Len(call.apps) = MAX_PINNED_APPS /\ ~KeyPinned(call.apps, FileKey(call.file))
        => call.result = "LimitReached" /\ call.after = call.apps

\* a 21st program was offered to the full dock
C14_TwentyFirstOffered ==
    /\ AddDone
    /\ Len(call.apps) = MAX_PINNED_APPS
    /\ call.file = PlainFile(ExePath(MAX_PINNED_APPS + 1))
    /\ call.result = "LimitReached"

\* C15 as stated: for every collection, an add-pin attempt whose resolved key is
\* the key of an entry returns Duplicate and leaves the collection as it was
C15_PinnedKeyIsDuplicate ==
    AddDone /\ Resolves(call.file) /\ KeyPinned(call.apps, FileKey(call.file))
        => call.result = "Duplicate" /\ call.after = call.apps

\* C15: an add-pin attempt whose resolved key is the key of an entry leaves the
\* collection as it was; it returns LimitReached when the collection holds 20
\* entries, else Unsupported when the target is neither .exe, .lnk nor a folder,
\* else Duplicate
C15_PinnedKeyLeavesCollection ==
    AddDone /\ Resolves(call.file) /\ KeyPinned(call.apps, FileKey(call.file))
        => /\ call.after = call.apps
           /\ call.result =
                  IF Len(call.apps) >= MAX_PINNED_APPS THEN "LimitReached"
                  ELSE IF ~is_supported_app_path(resolved_launch(call.file).path,
                                                 call.file.is_dir)
                  THEN "Unsupported"
                  ELSE "Duplicate"

\* a shortcut whose padded arguments trim to those of a pinned entry was refused
C15_ShortcutToPinnedRefused ==
    /\ AddDone
    /\ IsSome(call.file.shortcut)
    /\ IsSome(resolved_launch(call.file).launch_args)
    /\ call.result = "Duplicate"

-----------------------------------------------------------------------------
(* Window move and resize                                                  *)

\* C16: window move and window resize are mutually exclusive: in no reachable state are
\* is_dragging_window and resize_drag both active (starting one cancels the other)
C16_MoveAndResizeExclusive == ~(is_dragging_window /\ IsSome(resize_drag))

\* a frame that sees the release of a window move
MoveReleased == is_dragging_window /\ is_visible /\ frame'.op = "release"

\* the right edge of the window is within the snap threshold of the right monitor edge
RightEdgeNear ==
    /\ IsSome(viewport.monitor_size)
    /\ Abs(viewport.outer_pos.x + sanitize_window_size(viewport.inner_size).x
           - Unwrap(viewport.monitor_size).x) < SNAP_THRESHOLD

\* the saved position puts the right edge of the window on the right monitor edge
SavedAtRightEdge(cfg) ==
    Unwrap(cfg.last_pos).x + Unwrap(cfg.last_size).x = Unwrap(viewport.monitor_size).x

C18_ResizeWithinMonitor ==
    IsSome(frame.size) /\ IsSome(viewport.monitor_size) =>
        /\ MIN_WINDOW_WIDTH <= Unwrap(frame.size).x
        /\ Unwrap(frame.size).x <= Unwrap(viewport.monitor_size).x - RESIZE_MARGIN
        /\ MIN_WINDOW_HEIGHT <= Unwrap(frame.size).y
        /\ Unwrap(frame.size).y <= Unwrap(viewport.monitor_size).y - RESIZE_MARGIN

\* the saved window position keeps the visibility constraint on this monitor
SavedVisible(monitor_size) ==
    /\ MIN_VISIBLE_WIDTH - Unwrap(config.last_size).x <= Unwrap(config.last_pos).x
    /\ Unwrap(config.last_pos).x <= monitor_size.x - MIN_VISIBLE_WIDTH
    /\ 0 <= Unwrap(config.last_pos).y
    /\ Unwrap(config.last_pos).y <= monitor_size.y - HEADER_HEIGHT

\* C19: after every frame that saved the window geometry with the monitor size known
\* (a move commit, a resize commit), the saved position satisfies
\* 72 - width <= x <= monitor_width - 72 and 0 <= y <= monitor_height - 28
C19_SavedPositionVisible ==
    frame.saves > 0 /\ IsSome(viewport.monitor_size) =>
        SavedVisible(Unwrap(viewport.monitor_size))

\* C19: a move dragged far to the right and down was committed at the limits
C19_MoveCommittedAtLimit ==
    /\ frame.op = "release"
    /\ frame.saves = 1
    /\ IsSome(viewport.monitor_size)
    /\ ~is_dragging_window
    /\ ~IsSome(resize_drag)
    /\ Unwrap(config.last_pos).x = Unwrap(viewport.monitor_size).x - MIN_VISIBLE_WIDTH
    /\ Unwrap(config.last_pos).y = Unwrap(viewport.monitor_size).y - HEADER_HEIGHT

\* C20: while a window move or resize is in progress the saved geometry is unchanged
\* by every frame but the one that sees the release, and that frame saves it once
C20_SavedOnceAtRelease ==
    [][is_dragging_window \/ IsSome(resize_drag) =>
          IF is_visible /\ frame'.op = "release" THEN frame'.saves = 1
          ELSE /\ frame'.saves = 0
               /\ config'.last_pos = config.last_pos
               /\ config'.last_size = config.last_size]_vars

-----------------------------------------------------------------------------
(* Removal, two-column release, index safety                               *)

\* a frame removed an entry and committed no drop animation before it
EntryRemoved == frame'.removed /\ ~frame'.committed

\* the selection after the removal of index r, by the rule
SelectionAfterRemoval(sel, r) == IF sel = r THEN None ELSE Some(IF sel > r THEN sel - 1 ELSE sel)

\* C21: removing the entry at index r, a selection equal to r becomes none, a greater
\* one becomes selection - 1, a smaller one is unchanged, and a selection that denoted
\* an entry denotes the same entry after the removal, in single-column and in
\* two-column mode
C21_SelectionFollowsRemoval ==
    [][EntryRemoved /\ IsSome(selected_app) =>
          /\ selected_app' = SelectionAfterRemoval(Unwrap(selected_app), Unwrap(frame'.remove_idx))
          /\ Unwrap(selected_app) < Len(pinned_apps) /\ IsSome(selected_app') =>
                 /\ Unwrap(selected_app') < Len(pinned_apps')
                 /\ At(pinned_apps', Unwrap(selected_app')) = At(pinned_apps, Unwrap(selected_app))]_vars

\* C21: in two-column mode an entry above the selected one was removed and the
\* selection moved up with its entry
C21_SelectionShiftedInTwoColumns ==
    /\ frame.removed
    /\ ~frame.committed
    /\ config.two_column_mode
    /\ selected_app = frame.remove_idx
    /\ Unwrap(selected_app) < Len(pinned_apps)


\* a list of indices without the index d
WithoutIndex(indices, d) == SelectSeq(indices, LAMBDA x : x # d)
\* a list of indices with d put in at min(slot, length)
WithIndexAt(indices, slot, d) ==
    SubSeq(indices, 1, Min(slot, Len(indices))) \o <<d>>
        \o SubSeq(indices, Min(slot, Len(indices)) + 1, Len(indices))
\* the launch target of an entry (drawing a row changes its icon request only)
Target(app) == [path |-> app.path, working_dir |-> app.working_dir, launch_args |-> app.launch_args]
Targets(apps) == [k \in 1 .. Len(apps) |-> Target(apps[k])]
\* the entries of a dock that a list of indices names, in the list's order
EntriesOf(apps, indices) == [k \in 1 .. Len(indices) |-> Target(At(apps, indices[k]))]
\* the column lists before the release
ListsBefore == resolve_two_column_indices(call.apps, call.layout)
\* the column and slot the dragged index has before the release
OwnSlot ==
    IF call.dragging_app \in SeqRange(ListsBefore[1])
    THEN <<0, CHOOSE k \in 0 .. MaxGridApps : At(ListsBefore[1], k) = call.dragging_app>>
    ELSE <<1, CHOOSE k \in 0 .. MaxGridApps : At(ListsBefore[2], k) = call.dragging_app>>
\* the target of the release: grid_drag_target, or the dragged index's own slot
ReleaseTarget ==
    IF IsSome(call.grid_drag_target) THEN Unwrap(call.grid_drag_target) ELSE OwnSlot
\* the column lists the claim describes after the release
ListsAfter ==
    <<IF ReleaseTarget[1] = 0
      THEN WithIndexAt(WithoutIndex(ListsBefore[1], call.dragging_app), ReleaseTarget[2],
                       call.dragging_app)
      ELSE WithoutIndex(ListsBefore[1], call.dragging_app),
      IF ReleaseTarget[1] = 1
      THEN WithIndexAt(WithoutIndex(ListsBefore[2], call.dragging_app), ReleaseTarget[2],
                       call.dragging_app)
      ELSE WithoutIndex(ListsBefore[2], call.dragging_app)>>
GridReleased == call.fn = "grid_release" /\ call.done

\* C22: the release of a two-column drag takes the dragged index out of its column
\* list and puts it into the target column list at min(target slot, list length); when
\* the lists differ from the lists before the drag, the collection becomes the entries
\* of the left list followed by the entries of the right list and the persisted layout
\* is the split of that collection at the length of the left list
C22_ReleaseMovesBetweenColumns ==
    GridReleased /\ ListsAfter # ListsBefore =>
        /\ Targets(call.after.pinned_apps) =
               EntriesOf(call.apps, ListsAfter[1]) \o EntriesOf(call.apps, ListsAfter[2])
        /\ call.after.config.two_column_layout =
               Some([left  |-> [k \in 1 .. Len(ListsAfter[1]) |->
                                   two_column_entry_from_app(call.after.pinned_apps[k])],
                     right |-> [k \in 1 .. Len(ListsAfter[2]) |->
                                   two_column_entry_from_app(
                                       call.after.pinned_apps[Len(ListsAfter[1]) + k])]])
        /\ call.after.dragging_app = None

\* C22: a release moved the first entry of the left column behind an entry of the
\* right column
C22_MovedAcrossColumns ==
    /\ GridReleased
    /\ Len(call.apps) = 3
    /\ OwnSlot = <<0, 0>>
    /\ ReleaseTarget = <<1, 1>>
    /\ Targets(call.after.pinned_apps) # Targets(call.apps)

\* a frame in which the button went up during a two-column drag of an entry of the
\* collection
GridDragReleased ==
    /\ frame'.op = "release"
    /\ is_visible
    /\ config.two_column_mode
    /\ IsSome(dragging_app)
    /\ Unwrap(dragging_app) < Len(pinned_apps)

\* C23: whenever two-column mode is enabled there is no drop animation, and the
\* frame that releases a two-column drag ends the drag and leaves every entry in the
\* collection: the move is applied in that frame, nothing is detached
C23_NoDropAnimationInTwoColumns ==
    /\ [](config.two_column_mode => drop_anim = None)
    /\ [][GridDragReleased =>
              /\ dragging_app' = None
              /\ drop_anim' = None
              /\ Len(pinned_apps') = Len(pinned_apps)
              /\ SeqRange(Targets(pinned_apps')) = SeqRange(Targets(pinned_apps))]_vars

\* C23: a two-column drag was released and the frame changed the order of the entries
C23_GridMoveApplied ==
    /\ frame.op = "release"
    /\ config.two_column_mode
    /\ frame.saves > 0
    /\ dragging_app = None
    /\ Len(pinned_apps) >= 2

\* C24: no sequence of operations is fatal: the collection is never read at an index
\* at or past its length, the dragged entry read through dragging_app included
C24_NoIndexOutOfBounds == ~crashed

\* two strings are equal when the case of the letters A to Z is ignored
SameIgnoringCase(s, t) ==
    /\ Len(s) = Len(t)
    /\ \A i \in 1 .. Len(s) :
           (IF s[i] \in 65 .. 90 THEN s[i] + 32 ELSE s[i]) = (IF t[i] \in 65 .. 90 THEN t[i] + 32 ELSE t[i])
\* an absent value counts as the empty string
OrEmpty(opt) == IF IsSome(opt) THEN Unwrap(opt) ELSE <<>>
\* the three comparisons the identity of a launch target consists of
SameLaunchTarget(a, b) ==
    /\ SameIgnoringCase(a.path, b.path)
    /\ trim(OrEmpty(a.args)) = trim(OrEmpty(b.args))
    /\ SameIgnoringCase(OrEmpty(a.working_dir), OrEmpty(b.working_dir))
KeysComputed == call.fn = "launch_key" /\ call.done

\* C25: two launch targets have the same key exactly when their paths are equal
\* ignoring case, their arguments are equal after trimming (absent counts as empty)
\* and their working directories are equal ignoring case (absent counts as empty)
C25_SameKeyIffSameTarget ==
    KeysComputed => (call.key_a = call.key_b <=> SameLaunchTarget(call.a, call.b))

\* C25: targets that the three comparisons hold for have the same key
C25_SameTargetSameKey ==
    KeysComputed /\ SameLaunchTarget(call.a, call.b) => call.key_a = call.key_b

\* C26: during a single-column drag the target slot is a position among the visible
\* rows or their number, so for a collection of n entries it is one of 0 .. n - 1
C26_TargetSlotBelowLength ==
    /\ ~crashed
    /\ ~config.two_column_mode
    /\ IsSome(dragging_app)
    /\ IsSome(drag_target)
    => Unwrap(drag_target) <= Len(pinned_apps) - 1

\* the target slot of the released drag: the slot under the pointer, or the slot the
\* drag had when the pointer is outside the window
ReleaseSlot ==
    IF IsSome(call.pointer)
    THEN slot_from_pointer(Unwrap(call.pointer).y, list_rects(ListDragState(call)))
    ELSE call.drag_target
\* the drop animation of the released drag is running
InAnimation == call.fn = "list_gesture" /\ call.phase = "anim"
\* the drop animation holds the dragged entry for the slot min(target slot, n - 1)
HoldsDraggedEntry ==
    /\ Target(Unwrap(call.s.drop_anim).item) = Target(At(call.apps, call.dragging_app))
    /\ Unwrap(call.s.drop_anim).insert_at = Min(ReleaseSlot, Len(call.apps) - 1)
    /\ \A k \in 1 .. Len(call.s.pinned_apps) :
           Target(call.s.pinned_apps[k]) # Target(At(call.apps, call.dragging_app))

\* C27: the release of a single-column drag takes the dragged entry out of the
\* collection in that step and creates the drop animation with the insertion index
\* min(target slot, n - 1); until the animation commits the collection has n - 1
\* entries
C27_DetachedUntilCommit ==
    InAnimation =>
        /\ HoldsDraggedEntry
        /\ Len(call.s.pinned_apps) = Len(call.apps) - 1

\* C27, with an add before the commit: the release takes the dragged entry out of the
\* collection in that step and creates the drop animation with the insertion index
\* min(target slot, n - 1); until the animation commits the collection has n - 1
\* entries, the other entries of the dock in their order, as long as no entry is added
\* in between, and n entries once one was added
C27_DetachedUntilCommitOrAdd ==
    InAnimation =>
        /\ HoldsDraggedEntry
        /\ ~call.added => Targets(call.s.pinned_apps) = Targets(VecRemove(call.apps, call.dragging_app))
        /\ call.added => Len(call.s.pinned_apps) = Len(call.apps)

\* C27: the first of three entries was released past the last row; the animation
\* holds it for the last slot and two entries are in the collection
C27_FirstEntryReleasedAtEnd ==
    /\ InAnimation
    /\ ~call.added
    /\ Len(call.apps) = 3
    /\ call.dragging_app = 0
    /\ ReleaseSlot >= 2
    /\ Unwrap(call.s.drop_anim).insert_at = 2
    /\ Len(call.s.pinned_apps) = 2

\* the gesture ran from the release to the commit and nothing else happened
GestureCompleted == call.fn = "list_gesture" /\ call.phase = "done" /\ ~call.added

\* C28: a complete single-column reorder gesture on entry i, released at slot s, with
\* no other operation, leaves the original collection with entry i moved to index
\* min(s, n - 1) and the other entries in their original relative order, and the
\* selection points at the moved entry
C28_GestureMovesEntry ==
    GestureCompleted =>
        /\ Targets(call.s.pinned_apps) =
               Targets(VecInsert(VecRemove(call.apps, call.dragging_app),
                                 Min(ReleaseSlot, Len(call.apps) - 1),
                                 At(call.apps, call.dragging_app)))
        /\ call.s.selected_app = Some(Min(ReleaseSlot, Len(call.apps) - 1))
        /\ call.s.drop_anim = None
        /\ call.s.dragging_app = None

\* C28: the first of three entries was dragged to the end: it is the last entry
\* after the commit and it is selected
C28_FirstEntryMovedToEnd ==
    /\ GestureCompleted
    /\ Len(call.apps) = 3
    /\ call.dragging_app = 0
    /\ Targets(call.s.pinned_apps) =
           <<Target(call.apps[2]), Target(call.apps[3]), Target(call.apps[1])>>
    /\ call.s.selected_app = Some(2)

\* the drag was released where the dragged entry already is
ReleasedAtOwnSlot == GridReleased /\ ReleaseTarget = OwnSlot

\* C29: a two-column drag released at the dragged entry's own column and slot leaves
\* the order of the collection, the persisted layout, the persisted pin list and the
\* selection as they were and saves nothing
C29_ReleaseAtOwnSlotChangesNothing ==
    ReleasedAtOwnSlot =>
        /\ Targets(call.after.pinned_apps) = Targets(call.apps)
        /\ call.after.config.two_column_layout = call.layout
        /\ call.after.config.pinned_apps = [k \in 1 .. Len(call.apps) |-> call.apps[k].path]
        /\ call.after.selected_app = call.selected_app
        /\ call.after.frame.saves = 0

\* C29: the second of three entries, selected or not, was released on the slot it has
\* in its column, with the target set by the pointer
C29_ReleasedOnOwnRow ==
    /\ ReleasedAtOwnSlot
    /\ IsSome(call.grid_drag_target)
    /\ Len(call.apps) = 3
    /\ call.dragging_app = 1
    /\ call.selected_app = Some(0)
    /\ call.after.dragging_app = None

\* the alternating split of n entries: even indices left, odd indices right
AlternatingSplit(n) ==
    <<[k \in 1 .. (n + 1) \div 2 |-> 2 * (k - 1)], [k \in 1 .. n \div 2 |-> 2 * k - 1]>>

\* C30: the reconciliation gives the alternating split (even indices left, odd
\* indices right) when no key of the persisted layout matches a live entry: the layout
\* is absent, empty, or lists unknown keys only. When a key matches, the right column
\* holds only entries the layout's right list names, whatever the parity of their
\* index. A persisted key that matches no entry produces no index: the columns hold
\* the indices of the collection and nothing else
C30_AlternatingSplitIffNoMatch ==
    Resolved(1) =>
        /\ ~LayoutMatchesAnEntry => call.split = AlternatingSplit(Len(call.apps))
        /\ LayoutMatchesAnEntry =>
               \A i \in Indices(call.apps) :
                   AppKey(At(call.apps, i)) \notin KeySet(Unwrap(call.layout).right)
                       => i \notin Range(call.split[2])
        /\ Range(call.split[1] \o call.split[2]) = Indices(call.apps)
        /\ Len(call.split[1] \o call.split[2]) = Len(call.apps)

\* C30: a layout that lists unknown keys only met a collection of three entries
C30_UnknownKeysOnly ==
    /\ Resolved(1)
    /\ Len(call.apps) = MaxApps
    /\ IsSome(call.layout)
    /\ Unwrap(call.layout).left # <<>>
    /\ Unwrap(call.layout).right # <<>>
    /\ ~LayoutMatchesAnEntry
    /\ call.split = <<<<0, 2>>, <<1>>>>

-----------------------------------------------------------------------------
(* Layout, grid target, resize, source index, selection, persisted pins    *)

\* the keys the persisted layout lists, left column first
PersistedLayoutKeys ==
    LayoutKeysOf(Unwrap(config.two_column_layout).left \o Unwrap(config.two_column_layout).right)

\* C31: in two-column mode the persisted layout is in step with the collection: its
\* left keys followed by its right keys are the keys of the collection in collection
\* order, each live entry listed once
C31_LayoutInStepWithCollection ==
    config.two_column_mode =>
        /\ IsSome(config.two_column_layout)
        /\ PersistedLayoutKeys = AppKeysOf(pinned_apps)

\* C31: a pin was added in two-column mode to a dock with an entry in the right column
C31_AddedInTwoColumns ==
    /\ config.two_column_mode
    /\ frame.op = "drop_files"
    /\ frame.add = <<"Added">>
    /\ Len(pinned_apps) = 2
    /\ Len(Unwrap(config.two_column_layout).right) >= 1

\* the reconciled column lists of a state
ColumnLists(apps, cfg) == resolve_two_column_indices(apps, cfg.two_column_layout)
\* the target names the place of index idx in the column lists
IsOwnSlot(target, idx, lists) ==
    /\ IsSome(target)
    /\ Unwrap(target)[2] < Len(lists[Unwrap(target)[1] + 1])
    /\ At(lists[Unwrap(target)[1] + 1], Unwrap(target)[2]) = idx

\* C32: when a two-column drag becomes active its target is the dragged entry's own
\* column and slot in the reconciled lists, and while the drag is active the target
\* slot is at most the length of the target column's list without the dragged entry
C32_GridTargetOwnSlotThenBounded ==
    /\ [][config'.two_column_mode /\ ~IsSome(dragging_app) /\ IsSome(dragging_app')
              => IsOwnSlot(grid_drag_target', Unwrap(dragging_app'),
                           ColumnLists(pinned_apps', config'))]_vars
    /\ [](config.two_column_mode /\ IsSome(dragging_app) /\ IsSome(grid_drag_target)
              => Unwrap(grid_drag_target)[2]
                     <= Len(WithoutIndex(ColumnLists(pinned_apps, config)[Unwrap(grid_drag_target)[1] + 1],
                                         Unwrap(dragging_app))))

\* the position and size a resize started from satisfy the visibility constraint
StartedVisible(state, monitor_size) ==
    IsSome(monitor_size) =>
        /\ MIN_VISIBLE_WIDTH - state.start_window_size.x <= state.start_window_pos.x
        /\ state.start_window_pos.x <= Unwrap(monitor_size).x - MIN_VISIBLE_WIDTH
        /\ 0 <= state.start_window_pos.y
        /\ state.start_window_pos.y <= Unwrap(monitor_size).y - HEADER_HEIGHT
\* a frame of a resize by one of these edges commanded a position and a size
ResizeStepped(edges) ==
    /\ IsSome(resize_drag)
    /\ Unwrap(resize_drag).edge \in edges
    /\ resize_drag' = resize_drag
    /\ IsSome(frame'.position)
    /\ IsSome(frame'.size)
    /\ StartedVisible(Unwrap(resize_drag), viewport.monitor_size)

\* C33: during a left-edge or bottom-left resize that starts from a position
\* satisfying the visibility constraint the right edge of the window does not move:
\* the commanded x + width is the anchor x + anchor width for every pointer delta
C33_LeftResizeKeepsRightEdge ==
    [][ResizeStepped({"Left", "BottomLeft"}) =>
          Unwrap(frame'.position).x + Unwrap(frame'.size).x
              = Unwrap(resize_drag).start_window_pos.x + Unwrap(resize_drag).start_window_size.x]_vars

\* C34: a right, bottom-right or bottom resize that starts from a position satisfying
\* the visibility constraint never changes the window origin: the commanded position
\* is the anchor position for every pointer delta; a right resize leaves the height
\* and a bottom resize the width as it was
C34_RightBottomResizeKeepsOrigin ==
    [][ResizeStepped({"Right", "BottomRight", "Bottom"}) =>
          /\ Unwrap(frame'.position) = Unwrap(resize_drag).start_window_pos
          /\ Unwrap(resize_drag).edge = "Right"
                 => Unwrap(frame'.size).y = Unwrap(resize_drag).start_window_size.y
          /\ Unwrap(resize_drag).edge = "Bottom"
                 => Unwrap(frame'.size).x = Unwrap(resize_drag).start_window_size.x]_vars

\* the index a press or a drag stores for its source entry
SourceIndex ==
    IF IsSome(dragging_app) THEN dragging_app
    ELSE IF IsSome(press_candidate) THEN Some(Unwrap(press_candidate).idx)
    ELSE None
\* the source index after the step
SourceIndexAfter ==
    IF IsSome(dragging_app') THEN dragging_app'
    ELSE IF IsSome(press_candidate') THEN Some(Unwrap(press_candidate').idx)
    ELSE None

\* C35: from the press to the commit the stored source index (in press_candidate,
\* then in dragging_app) keeps denoting the entry the pointer was pressed on: a step
\* that leaves the gesture in progress leaves the index on the same entry, also when
\* it adds or removes a pin or re-sorts the collection
C35_SourceIndexKeepsItsEntry ==
    [][/\ IsSome(SourceIndex)
       /\ Unwrap(SourceIndex) < Len(pinned_apps)
       /\ IsSome(SourceIndexAfter)
       /\ ~crashed'
       => /\ Unwrap(SourceIndexAfter) < Len(pinned_apps')
          /\ Target(At(pinned_apps', Unwrap(SourceIndexAfter)))
                 = Target(At(pinned_apps, Unwrap(SourceIndex)))]_vars

\* C36: whenever a selection exists it is a valid index of the collection
\* (selected_app < collection length), after any sequence of add, remove, drag
\* release, drop-animation commit and mode toggle
C36_SelectionIsValidIndex ==
    IsSome(selected_app) /\ ~crashed => Unwrap(selected_app) < Len(pinned_apps)

\* the pins the dock holds: those of the collection and the one a drop animation
\* carries
PinsHeld(apps, anim) ==
    {apps[k] : k \in 1 .. Len(apps)} \cup (IF IsSome(anim) THEN {Unwrap(anim).item} ELSE {})

\* the paths of the results with an image that wait in the UI channel
ImagesDelivered ==
    {runtime.rx[k].result.path :
        k \in {j \in 1 .. Len(runtime.rx) :
                  runtime.rx[j].kind = "IconReady" /\ runtime.rx[j].result.image}}

\* the step is a frame: it drained the UI channel
FrameDrained == frames_left' = frames_left - 1 /\ ~crashed'

\* C37: a pin whose icon was requested and whose result with an image is drained
\* while the pin is still held (in the collection or by a drop animation) has its
\* icon loaded after that frame; a result for a path no pin has changes no icon
C37_DeliveredIconIsLoaded ==
    [][FrameDrained =>
        /\ \A pin \in PinsHeld(pinned_apps, drop_anim) :
           \A after \in PinsHeld(pinned_apps', drop_anim') :
               /\ pin.icon_requested
               /\ pin.path \in ImagesDelivered
               /\ after.path = pin.path
               => after.texture
        /\ \A after \in PinsHeld(pinned_apps', drop_anim') :
               /\ after.texture
               /\ after.path \notin ImagesDelivered
               => \E pin \in PinsHeld(pinned_apps, drop_anim) :
                      pin.path = after.path /\ pin.texture]_vars

\* C38: whenever no Show or Hide event waits in the UI channel, the UI's is_visible
\* equals the event loop's is_visible, for every interleaving of the hotkey threads,
\* the event loop and the frames
C38_VisibilityFlagsAgree ==
    runtime.rx = <<>> => is_visible = runtime.is_visible

\* both flags are false after a frame drained the Hide of a chord that the polling
\* fallback saw
C38_HiddenOnBothSides ==
    /\ runtime.rx = <<>>
    /\ runtime.action_rx = <<>>
    /\ runtime.prev_hide
    /\ frame.op = "idle"
    /\ ~is_visible
    /\ ~runtime.is_visible

\* the paths of the pinned collection, in collection order
PinnedPaths == [k \in 1 .. Len(pinned_apps) |-> pinned_apps[k].path]

\* C39: whenever no drop animation is in flight, the persisted pin list equals the
\* paths of the pinned collection in collection order
C39_PersistedPinsFollowCollection ==
    ~IsSome(drop_anim) /\ ~crashed => config.pinned_apps = PinnedPaths

\* a drop animation committed a reorder: the collection is [b.exe, a.exe] and the
\* persisted list was written in the same frame
C39_ReorderCommitted ==
    /\ frame.committed
    /\ frame.saves > 0
    /\ ~IsSome(drop_anim)
    /\ PinnedPaths = <<ExePin(2).path, ExePin(1).path>>

=============================================================================
